---- MODULE Spec2Model ----
(***************************************************************************)
(* RESTCore: a blocking HTTP/HTTPS server host (one accept-loop thread per *)
(* listener, one detached session thread per accepted connection) and a    *)
(* blocking client (persistent Connection, one-shot helpers, streaming     *)
(* response decoder).                                                      *)
(*                                                                         *)
(* Server side: src/HTTPServerHost.cpp.  Client side: src/src/Client.cpp.  *)
(***************************************************************************)
EXTENDS Integers, Sequences, FiniteSets, Bags, TLC

\* ------------------------------------------------------------------ bounds
\* Endpoint configurations that can be registered.
MaxCfgs == 1
\* Connections alive at one time: queued on an acceptor, or owned by a
\* session thread.  Every runtime whose running flag is set counts as one,
\* for the wake connection stop() will open to it.
MaxConnections == 2

\* Chunks in a chunked body, and bytes in one chunk.
MaxChunks == 2
MaxChunkLen == 2

\* Bytes in a body that is not chunked.
MaxBody == 3

\* Size of the storage window of the fixed-length loop (8192 in the source).
StorageSize == 2

\* Requests one keep-alive session reads before its peer stops sending.
MaxRequests == 2

\* ------------------------------------------------------------ server state
VARIABLES
    http_cfgs_,       \* std::vector<HttpListenerCfg>
    https_cfgs_,      \* std::vector<HttpsListenerCfg>
    http_runtimes_,   \* std::vector<unique_ptr<ListenerRuntime>> (thread ids)
    https_runtimes_,  \* std::vector<unique_ptr<ListenerRuntime>> (thread ids)
    callback_,        \* the user callback ("none" is an empty std::function)
    rt,               \* thread id -> ListenerRuntime + its accept-loop position
    backlog,          \* thread id -> connections queued on its acceptor
    sess,             \* the bag of running (detached) session threads
    api,              \* the thread calling the server's methods
    res               \* the response a session handler builds, by itself

VARIABLES
    conn,             \* the persistent Connection: made, open, close_reason_
    call,             \* the client call in progress or last made: position,
                      \* function, own socket, request handed to http::write,
                      \* reason argument of close, on_chunk given non-empty,
                      \* Connection header of the caller, Connection marking
                      \* of the request written
    resp,             \* the response of the exchange in progress or last made
    wire,             \* the body segments the peer has not delivered yet
    parser_done,      \* parser.is_done()
    saw_end_of_stream,
    on_chunk_calls,   \* the on_chunk invocations of the stream, in order
    result,           \* what the last call returned or threw
    req               \* the request a client call builds, by itself

srvVars == <<http_cfgs_, https_cfgs_, http_runtimes_, https_runtimes_,
             callback_, rt, backlog, sess, api, res>>

cliVars == <<conn, call, resp, wire, parser_done, saw_end_of_stream,
             on_chunk_calls, result, req>>

vars == <<srvVars, cliVars>>

RtIds == 1..MaxConnections

\* What listen_http / listen_https are called with: a wildcard address, an
\* address that does not parse, a loadable and an unreadable certificate.
\* (Two runtimes of one endpoint, after start(); start(), share a port: the
\* second bind fails.)
HttpInputs ==
    { [address |-> "0.0.0.0", port |-> 8080],
      [address |-> "not-an-ip", port |-> 8081] }

HttpsInputs ==
    { [address |-> "127.0.0.1", port |-> 8443,
       cert_file |-> "server.pem", key_file |-> "server.key"],
      [address |-> "127.0.0.1", port |-> 8443,
       cert_file |-> "missing.pem", key_file |-> "server.key"] }

Callbacks == {"handler"}

\* net::ip::make_address succeeds on these.
ParsableAddress(a) == a \in {"127.0.0.1", "0.0.0.0", "::1", "::"}

\* ssl::context::use_certificate_chain_file / use_private_key_file succeed.
ReadablePem(f) == f \in {"server.pem", "server.key"}

NoRuntime ==
    [pc |-> "none", running |-> FALSE, address |-> "", port |-> 0,
     tls |-> FALSE, cert_file |-> "", key_file |-> "", cb |-> "none",
     joinable |-> FALSE]

\* Runtime ids in the order stop() visits them.
AllRuntimes == http_runtimes_ \o https_runtimes_

\* The acceptor of thread i is open and listening.
Listening(i) == rt[i].pc \in {"ctx", "loop", "accept", "retry"}

\* The thread whose acceptor is bound to port p, if any.
Holder(p) ==
    {i \in RtIds : rt[i].port = p /\ (rt[i].pc = "bound" \/ Listening(i))}

FreeRt == {i \in RtIds : rt[i].pc = "none"}

RECURSIVE SumLen(_, _)
SumLen(f, S) ==
    IF S = {} THEN 0
    ELSE LET x == CHOOSE y \in S : TRUE
         IN Len(f[x]) + SumLen(f, S \ {x})

Connections ==
    BagCardinality(sess) + SumLen(backlog, RtIds)
        + Cardinality({i \in RtIds : rt[i].running})

\* The k-th unused thread id.
NthFree(k) ==
    CHOOSE i \in FreeRt : Cardinality({j \in FreeRt : j < i}) = k - 1

\* The session threads alive.
Sessions == BagToSet(sess)

\* The calling thread is between two calls; "stopped" is "idle" right after
\* stop() has returned.
Idle == api.pc \in {"idle", "stopped"}

ServerInit ==
    /\ http_cfgs_ = <<>>
    /\ https_cfgs_ = <<>>
    /\ http_runtimes_ = <<>>
    /\ https_runtimes_ = <<>>
    /\ callback_ = "none"
    /\ rt = [i \in RtIds |-> NoRuntime]
    /\ backlog = [i \in RtIds |-> <<>>]
    /\ sess = EmptyBag
    /\ api = [pc |-> "idle", i |-> 0]
    /\ res = [pc |-> "none"]

\* ------------------------------------------------------- configuration API

\* The endpoints are registered first and the server is run afterwards:
\* listen_http and listen_https are called while no listener runtime exists
\* and before any stop() ("Queue an HTTP listener").  set_callback only
\* assigns the member, so it can be called with listeners running as well.

\* HTTPServerHost::set_callback
set_callback(cb) ==
    /\ api.pc = "idle"
    /\ callback_' = cb
    /\ UNCHANGED <<cliVars, res, http_cfgs_, https_cfgs_, http_runtimes_, https_runtimes_,
                   rt, backlog, sess, api>>

\* HTTPServerHost::listen_http
listen_http(cfg) ==
    /\ api.pc = "idle"
    /\ AllRuntimes = <<>>
    /\ Len(http_cfgs_) + Len(https_cfgs_) < MaxCfgs
    /\ http_cfgs_' = Append(http_cfgs_, cfg)
    /\ UNCHANGED <<cliVars, res, https_cfgs_, http_runtimes_, https_runtimes_, callback_,
                   rt, backlog, sess, api>>

\* HTTPServerHost::listen_https
listen_https(cfg) ==
    /\ api.pc = "idle"
    /\ AllRuntimes = <<>>
    /\ Len(http_cfgs_) + Len(https_cfgs_) < MaxCfgs
    /\ https_cfgs_' = Append(https_cfgs_, cfg)
    /\ UNCHANGED <<cliVars, res, http_cfgs_, http_runtimes_, https_runtimes_, callback_,
                   rt, backlog, sess, api>>

\* A runtime whose thread is detached as soon as it is created.
HttpRuntimeDetached(cfg) ==
    [pc |-> "init", running |-> TRUE, address |-> cfg.address,
     port |-> cfg.port, tls |-> FALSE, cert_file |-> "", key_file |-> "",
     cb |-> callback_, joinable |-> FALSE]

\* The ListenerRuntime start() builds for one HTTP endpoint: running is
\* stored true before the thread is created, the callback is copied.
HttpRuntime(cfg) ==
    [pc |-> "init", running |-> TRUE, address |-> cfg.address,
     port |-> cfg.port, tls |-> FALSE, cert_file |-> "", key_file |-> "",
     cb |-> callback_, joinable |-> TRUE]

HttpsRuntime(cfg) ==
    [pc |-> "init", running |-> TRUE, address |-> cfg.address,
     port |-> cfg.port, tls |-> TRUE, cert_file |-> cfg.cert_file,
     key_file |-> cfg.key_file, cb |-> callback_, joinable |-> TRUE]

\* A start() that uses up the registered endpoints: they are moved into the
\* threads it creates.
startConsumesEndpoints ==
    /\ Idle
    /\ Connections + Len(http_cfgs_) + Len(https_cfgs_) <= MaxConnections
    /\ Len(http_cfgs_) + Len(https_cfgs_) <= Cardinality(FreeRt)
    /\ LET n1 == Len(http_cfgs_)
           n2 == Len(https_cfgs_)
           h == [k \in 1..n1 |-> NthFree(k)]
           s == [k \in 1..n2 |-> NthFree(n1 + k)]
       IN /\ rt' = [i \in RtIds |->
                      IF \E k \in 1..n1 : h[k] = i
                      THEN HttpRuntime(
                               http_cfgs_[CHOOSE k \in 1..n1 : h[k] = i])
                      ELSE IF \E k \in 1..n2 : s[k] = i
                      THEN HttpsRuntime(
                               https_cfgs_[CHOOSE k \in 1..n2 : s[k] = i])
                      ELSE rt[i]]
          /\ http_runtimes_' = http_runtimes_ \o h
          /\ https_runtimes_' = https_runtimes_ \o s
    /\ api' = [api EXCEPT !.pc = "idle"]
    /\ http_cfgs_' = <<>>
    /\ https_cfgs_' = <<>>
    /\ UNCHANGED <<cliVars, res, callback_, backlog, sess>>

\* HTTPServerHost::start: one runtime and one thread per registered
\* endpoint, HTTP endpoints first; returns without waiting for any thread.
start ==
    /\ Idle
    /\ Connections + Len(http_cfgs_) + Len(https_cfgs_) <= MaxConnections
    /\ Len(http_cfgs_) + Len(https_cfgs_) <= Cardinality(FreeRt)
    /\ LET n1 == Len(http_cfgs_)
           n2 == Len(https_cfgs_)
           h == [k \in 1..n1 |-> NthFree(k)]
           s == [k \in 1..n2 |-> NthFree(n1 + k)]
       IN /\ rt' = [i \in RtIds |->
                      IF \E k \in 1..n1 : h[k] = i
                      THEN HttpRuntime(
                               http_cfgs_[CHOOSE k \in 1..n1 : h[k] = i])
                      ELSE IF \E k \in 1..n2 : s[k] = i
                      THEN HttpsRuntime(
                               https_cfgs_[CHOOSE k \in 1..n2 : s[k] = i])
                      ELSE rt[i]]
          /\ http_runtimes_' = http_runtimes_ \o h
          /\ https_runtimes_' = https_runtimes_ \o s
    /\ api' = [api EXCEPT !.pc = "idle"]
    /\ UNCHANGED <<cliVars, res, http_cfgs_, https_cfgs_, callback_, backlog, sess>>

\* ------------------------------------------------------------------- stop

\* A TCP connect to `port`: queued on the listening acceptor that holds the
\* port, refused (nothing changes) when none does.
Connect(port, kind) ==
    LET L == {i \in Holder(port) : Listening(i)}
    IN IF L = {} THEN backlog
       ELSE [backlog EXCEPT ![CHOOSE i \in L : TRUE] = Append(@, kind)]

\* A wake that never opens a connection.
wakeNoConnect(addr, port) == backlog

\* The wake lambda of stop(): wildcard addresses are replaced by loopback,
\* an address that does not parse gives up, the connect result is ignored.
wake(addr, port) ==
    LET connect_addr == IF addr = "0.0.0.0" THEN "127.0.0.1"
                        ELSE IF addr = "::" THEN "::1" ELSE addr
    IN IF ~ParsableAddress(connect_addr) THEN backlog
       ELSE Connect(port, "wake")

\* stop() is entered.
StopCall ==
    /\ Idle
    /\ api' = [api EXCEPT !.pc = "signal", !.i = 1]
    /\ UNCHANGED <<cliVars, res, http_cfgs_, https_cfgs_, http_runtimes_, https_runtimes_,
                   callback_, rt, backlog, sess>>

\* A stop() that also shuts down the sockets of the sessions in flight.
StopSignalInterrupts ==
    /\ api.pc = "signal"
    /\ IF api.i <= Len(AllRuntimes)
       THEN LET r == AllRuntimes[api.i]
            IN /\ rt' = [rt EXCEPT ![r].running = FALSE]
               /\ api' = IF rt[r].running
                         THEN [api EXCEPT !.pc = "wake"]
                         ELSE [api EXCEPT !.i = @ + 1]
       ELSE /\ api' = [api EXCEPT !.pc = "join", !.i = 1]
            /\ UNCHANGED rt
    /\ UNCHANGED <<cliVars, res, http_cfgs_, https_cfgs_, http_runtimes_, https_runtimes_,
                   callback_, backlog>>
    /\ sess' = EmptyBag

\* rt->running.exchange(false) on the next runtime of the two signalling
\* loops (HTTP runtimes, then HTTPS runtimes).
StopSignal ==
    /\ api.pc = "signal"
    /\ IF api.i <= Len(AllRuntimes)
       THEN LET r == AllRuntimes[api.i]
            IN /\ rt' = [rt EXCEPT ![r].running = FALSE]
               /\ api' = IF rt[r].running
                         THEN [api EXCEPT !.pc = "wake"]
                         ELSE [api EXCEPT !.i = @ + 1]
       ELSE /\ api' = [api EXCEPT !.pc = "join", !.i = 1]
            /\ UNCHANGED rt
    /\ UNCHANGED <<cliVars, res, http_cfgs_, https_cfgs_, http_runtimes_, https_runtimes_,
                   callback_, backlog, sess>>

\* if (was_running) wake(rt->address, rt->port)
StopWake ==
    /\ api.pc = "wake"
    /\ LET r == AllRuntimes[api.i]
       IN backlog' = wake(rt[r].address, rt[r].port)
    /\ api' = [api EXCEPT !.pc = "signal", !.i = @ + 1]
    /\ UNCHANGED <<cliVars, res, http_cfgs_, https_cfgs_, http_runtimes_, https_runtimes_,
                   callback_, rt, sess>>

\* A join loop that lets go of each thread without waiting for it.
StopDetach ==
    /\ api.pc = "join"
    /\ IF api.i <= Len(AllRuntimes)
       THEN LET r == AllRuntimes[api.i]
            IN /\ rt' = [rt EXCEPT ![r].joinable = FALSE]
               /\ api' = [api EXCEPT !.i = @ + 1]
       ELSE /\ api' = [api EXCEPT !.pc = "clear"]
            /\ UNCHANGED rt
    /\ UNCHANGED <<cliVars, res, http_cfgs_, https_cfgs_, http_runtimes_, https_runtimes_,
                   callback_, backlog, sess>>

\* if (rt->thread.joinable()) rt->thread.join(): blocks until the thread's
\* function has returned.
StopJoin ==
    /\ api.pc = "join"
    /\ IF api.i <= Len(AllRuntimes)
       THEN LET r == AllRuntimes[api.i]
            IN /\ rt[r].joinable => rt[r].pc = "exited"
               /\ rt' = [rt EXCEPT ![r].joinable = FALSE]
               /\ api' = [api EXCEPT !.i = @ + 1]
       ELSE /\ api' = [api EXCEPT !.pc = "clear"]
            /\ UNCHANGED rt
    /\ UNCHANGED <<cliVars, res, http_cfgs_, https_cfgs_, http_runtimes_, https_runtimes_,
                   callback_, backlog, sess>>

\* A stop() that also forgets the registered endpoints.
StopClearEndpoints ==
    /\ api.pc = "clear"
    /\ http_runtimes_' = <<>>
    /\ https_runtimes_' = <<>>
    /\ http_cfgs_' = <<>>
    /\ https_cfgs_' = <<>>
    /\ rt' = [i \in RtIds |->
                IF /\ \E k \in 1..Len(AllRuntimes) : AllRuntimes[k] = i
                   /\ rt[i].pc = "exited"
                   /\ ~rt[i].joinable
                THEN NoRuntime ELSE rt[i]]
    /\ api' = [api EXCEPT !.pc = "stopped", !.i = 0]
    /\ UNCHANGED <<cliVars, res, callback_, backlog, sess>>

\* http_runtimes_.clear(); https_runtimes_.clear(); stop() returns.  The
\* ListenerRuntime objects are destroyed; a thread that has returned and
\* been joined leaves nothing behind.
StopClear ==
    /\ api.pc = "clear"
    /\ http_runtimes_' = <<>>
    /\ https_runtimes_' = <<>>
    /\ rt' = [i \in RtIds |->
                IF /\ \E k \in 1..Len(AllRuntimes) : AllRuntimes[k] = i
                   /\ rt[i].pc = "exited"
                   /\ ~rt[i].joinable
                THEN NoRuntime ELSE rt[i]]
    /\ api' = [api EXCEPT !.pc = "stopped", !.i = 0]
    /\ UNCHANGED <<cliVars, res, http_cfgs_, https_cfgs_, callback_, backlog, sess>>

\* ------------------------------------------------------------ accept loop

\* An exception that leaves the listener's thread: std::terminate ends every
\* thread of the process.
LeaveLoopTerminate(i) ==
    /\ rt' = [j \in RtIds |->
                IF rt[j].pc = "none" THEN rt[j]
                ELSE [rt[j] EXCEPT !.pc = "exited"]]
    /\ backlog' = [j \in RtIds |-> <<>>]

\* The accept loop of thread i ends (normally or through its catch block):
\* the acceptor is destroyed and the connections still queued on it are
\* dropped.  running is left as it is.
LeaveLoop(i) ==
    /\ rt' = [rt EXCEPT ![i].pc = "exited"]
    /\ backlog' = [backlog EXCEPT ![i] = <<>>]

\* make_address, acceptor.open, set_option(reuse_address), acceptor.bind.
\* An address that does not parse or a port already held throws.
Bind(i) ==
    /\ rt[i].pc = "init"
    /\ IF ParsableAddress(rt[i].address) /\ Holder(rt[i].port) = {}
       THEN /\ rt' = [rt EXCEPT ![i].pc = "bound"]
            /\ UNCHANGED backlog
       ELSE LeaveLoop(i)
    /\ UNCHANGED <<cliVars, res, http_cfgs_, https_cfgs_, http_runtimes_, https_runtimes_,
                   callback_, sess, api>>

\* A thread that looks at running before it listens and gives up when the
\* flag is already clear.
ListenIfRunning(i) ==
    /\ rt[i].pc = "bound"
    /\ IF rt[i].running
       THEN /\ rt' = [rt EXCEPT ![i].pc = IF rt[i].tls THEN "ctx" ELSE "loop"]
            /\ UNCHANGED backlog
       ELSE LeaveLoop(i)
    /\ UNCHANGED <<cliVars, res, http_cfgs_, https_cfgs_, http_runtimes_, https_runtimes_,
                   callback_, sess, api>>

\* acceptor.listen(max_listen_connections): from here on connects to the
\* port are queued.  running is not read before the loop condition.
Listen(i) ==
    /\ rt[i].pc = "bound"
    /\ rt' = [rt EXCEPT ![i].pc = IF rt[i].tls THEN "ctx" ELSE "loop"]
    /\ UNCHANGED <<cliVars, res, http_cfgs_, https_cfgs_, http_runtimes_, https_runtimes_,
                   callback_, backlog, sess, api>>

\* https_accept_loop: the TLS server context is built after listen; a
\* certificate or key that cannot be loaded throws.
LoadTlsContext(i) ==
    /\ rt[i].pc = "ctx"
    /\ IF ReadablePem(rt[i].cert_file) /\ ReadablePem(rt[i].key_file)
       THEN /\ rt' = [rt EXCEPT ![i].pc = "loop"]
            /\ UNCHANGED backlog
       ELSE LeaveLoop(i)
    /\ UNCHANGED <<cliVars, res, http_cfgs_, https_cfgs_, http_runtimes_, https_runtimes_,
                   callback_, sess, api>>

\* while (rt->running.load())
CheckRunning(i) ==
    /\ rt[i].pc \in {"loop", "retry"}
    /\ IF rt[i].running
       THEN /\ rt' = [rt EXCEPT ![i].pc = "accept"]
            /\ UNCHANGED backlog
       ELSE LeaveLoop(i)
    /\ UNCHANGED <<cliVars, res, http_cfgs_, https_cfgs_, http_runtimes_, https_runtimes_,
                   callback_, sess, api>>

\* A session thread that reads the request at once, TLS or not.
NewSessionNoHandshake(i, kind) ==
    [pc |-> "read", kind |-> kind,
     tls |-> rt[i].tls, cb |-> rt[i].cb, reads |-> 0, calls |-> 0,
     writes |-> 0, keep_alive |-> FALSE]

\* A session thread that takes the callback the server holds when the
\* connection is accepted.
NewSessionLiveCallback(i, kind) ==
    [pc |-> IF rt[i].tls THEN "handshake" ELSE "read", kind |-> kind,
     tls |-> rt[i].tls, cb |-> callback_, reads |-> 0, calls |-> 0,
     writes |-> 0, keep_alive |-> FALSE]

\* The detached session thread the accept loop creates for a socket.
NewSession(i, kind) ==
    [pc |-> IF rt[i].tls THEN "handshake" ELSE "read", kind |-> kind,
     tls |-> rt[i].tls, cb |-> rt[i].cb, reads |-> 0, calls |-> 0,
     writes |-> 0, keep_alive |-> FALSE]

\* acceptor.accept(socket, ec) returns a queued connection: a session
\* thread is detached for it and the loop goes back to its condition.
Accept(i) ==
    /\ rt[i].pc = "accept"
    /\ backlog[i] # <<>>
    /\ sess' = sess (+) SetToBag({NewSession(i, Head(backlog[i]))})
    /\ backlog' = [backlog EXCEPT ![i] = Tail(@)]
    /\ rt' = [rt EXCEPT ![i].pc = "loop"]
    /\ UNCHANGED <<cliVars, res, http_cfgs_, https_cfgs_, http_runtimes_, https_runtimes_,
                   callback_, api>>

\* An accept error that ends the loop whatever running holds.
AcceptErrorBreaks(i) ==
    /\ rt[i].pc = "accept"
    /\ LeaveLoop(i)
    /\ UNCHANGED <<cliVars, res, http_cfgs_, https_cfgs_, http_runtimes_, https_runtimes_,
                   callback_, sess, api>>

\* acceptor.accept(socket, ec) returns an error: break when running is
\* false, otherwise continue, which is position "retry", to the loop
\* condition.
AcceptError(i) ==
    /\ rt[i].pc = "accept"
    /\ IF rt[i].running
       THEN /\ rt' = [rt EXCEPT ![i].pc = "retry"]
            /\ UNCHANGED backlog
       ELSE LeaveLoop(i)
    /\ UNCHANGED <<cliVars, res, http_cfgs_, https_cfgs_, http_runtimes_, https_runtimes_,
                   callback_, sess, api>>

\* An outside client connects to a listening endpoint.
ClientConnect(i) ==
    /\ Connections < MaxConnections
    /\ Listening(i)
    /\ backlog' = Connect(rt[i].port, "client")
    /\ UNCHANGED <<cliVars, res, http_cfgs_, https_cfgs_, http_runtimes_, https_runtimes_,
                   callback_, rt, sess, api>>

\* ---------------------------------------------------------------- sessions

\* Session s moves on to state n.
Becomes(s, n) == (sess (-) SetToBag({s})) (+) SetToBag({n})

\* Session s has returned: its locals are gone and its socket is closed.
Gone(s) == sess (-) SetToBag({s})

\* A session handler without its catch block: the exception leaves the
\* detached thread and std::terminate ends every thread of the process.
Propagate(s) ==
    /\ sess' = EmptyBag
    /\ rt' = [i \in RtIds |->
                IF rt[i].pc = "none" THEN rt[i]
                ELSE [rt[i] EXCEPT !.pc = "exited"]]
    /\ backlog' = [i \in RtIds |-> <<>>]

\* An exception in the try block of a session handler lands in its
\* catch (...) { /* swallow */ }: the block's locals (stream, buffer, request,
\* response) are gone, which closes the socket; nothing else is touched.
Swallow(s) ==
    /\ sess' = Becomes(s, [s EXCEPT !.pc = "caught", !.reads = 0, !.calls = 0,
                                    !.writes = 0, !.keep_alive = FALSE])
    /\ UNCHANGED <<rt, backlog>>

\* handle_https_session: stream.handshake(server).  The wake connection
\* sends nothing and is closed at once, so its handshake fails.
Handshake(s) ==
    /\ s.pc = "handshake"
    /\ \/ /\ s.kind = "client"
          /\ sess' = Becomes(s, [s EXCEPT !.pc = "read"])
          /\ UNCHANGED <<rt, backlog>>
       \/ Swallow(s)
    /\ UNCHANGED <<cliVars, res, http_cfgs_, https_cfgs_, http_runtimes_, https_runtimes_,
                   callback_, api>>

\* A read whose failure is answered with an error response.
ReadRequestOrRespond(s) ==
    /\ s.pc = "read"
    /\ \/ /\ s.kind = "client"
          /\ sess' = Becomes(s, [s EXCEPT !.pc = "dispatch", !.reads = @ + 1])
          /\ UNCHANGED <<rt, backlog>>
       \/ /\ sess' = Becomes(s, [s EXCEPT !.pc = "shutdown", !.reads = 1,
                                           !.writes = 1])
          /\ UNCHANGED <<rt, backlog>>
    /\ UNCHANGED <<cliVars, res, http_cfgs_, https_cfgs_, http_runtimes_, https_runtimes_,
                   callback_, api>>

\* A read that takes the end of a connection that sent nothing for an empty
\* request.
ReadRequestAnyPeer(s) ==
    /\ s.pc = "read"
    /\ \/ /\ sess' = Becomes(s, [s EXCEPT !.pc = "dispatch", !.reads = @ + 1])
          /\ UNCHANGED <<rt, backlog>>
       \/ Swallow(s)
    /\ UNCHANGED <<cliVars, res, http_cfgs_, https_cfgs_, http_runtimes_, https_runtimes_,
                   callback_, api>>

\* http::read(stream, buffer, req): one request, or an exception (peer
\* closed, malformed request).  The wake connection never sends a request.
ReadRequest(s) ==
    /\ s.pc = "read"
    /\ \/ /\ s.kind = "client"
          /\ sess' = Becomes(s, [s EXCEPT !.pc = "dispatch", !.reads = @ + 1])
          /\ UNCHANGED <<rt, backlog>>
       \/ Swallow(s)
    /\ UNCHANGED <<cliVars, res, http_cfgs_, https_cfgs_, http_runtimes_, https_runtimes_,
                   callback_, api>>

\* A dispatch that holds a lock of the server around the callback: one
\* session at a time is at the callback.
DispatchUnderLock(s) ==
    /\ \A u \in Sessions : u.pc = "dispatch" => u = s
    /\ CopiesIn(s, sess) = 1
    /\ s.pc = "dispatch"
    /\ \/ /\ s.cb = "none"
          /\ sess' = Becomes(s, [s EXCEPT !.pc = "write"])
          /\ UNCHANGED <<rt, backlog>>
       \/ /\ s.cb # "none"
          /\ \E ka \in BOOLEAN :
                sess' = Becomes(s, [s EXCEPT !.pc = "write", !.calls = @ + 1,
                                             !.keep_alive = ka])
          /\ UNCHANGED <<rt, backlog>>
       \/ /\ s.cb # "none"
          /\ Swallow(s)
    /\ UNCHANGED <<cliVars, res, http_cfgs_, https_cfgs_, http_runtimes_, https_runtimes_,
                   callback_, api>>

\* res{ok}; res.set(server); res.keep_alive(false); if (cb) cb(req, res,
\* client); prepare_payload when needed.  The callback may set keep-alive on
\* the response, and may throw.
Dispatch(s) ==
    /\ s.pc = "dispatch"
    /\ \/ /\ s.cb = "none"
          /\ sess' = Becomes(s, [s EXCEPT !.pc = "write"])
          /\ UNCHANGED <<rt, backlog>>
       \/ /\ s.cb # "none"
          /\ \E ka \in BOOLEAN :
                sess' = Becomes(s, [s EXCEPT !.pc = "write", !.calls = @ + 1,
                                             !.keep_alive = ka])
          /\ UNCHANGED <<rt, backlog>>
       \/ /\ s.cb # "none"
          /\ Swallow(s)
    /\ UNCHANGED <<cliVars, res, http_cfgs_, https_cfgs_, http_runtimes_, https_runtimes_,
                   callback_, api>>

\* http::write(stream, res): the response is written, or the write throws.
WriteResponse(s) ==
    /\ s.pc = "write"
    /\ \/ /\ sess' = Becomes(s, [s EXCEPT !.pc = "shutdown", !.writes = @ + 1])
          /\ UNCHANGED <<rt, backlog>>
       \/ Swallow(s)
    /\ UNCHANGED <<cliVars, res, http_cfgs_, https_cfgs_, http_runtimes_, https_runtimes_,
                   callback_, api>>

\* The handler returns from its catch block and the session thread ends.
Return(s) ==
    /\ s.pc = "caught"
    /\ sess' = Gone(s)
    /\ UNCHANGED <<cliVars, res, http_cfgs_, https_cfgs_, http_runtimes_, https_runtimes_,
                   callback_, rt, backlog, api>>

\* A handler that honours the response's keep-alive and reads again.
ShutdownUnlessKeepAlive(s) ==
    /\ s.pc = "shutdown"
    /\ sess' = IF s.keep_alive THEN Becomes(s, [s EXCEPT !.pc = "read"])
               ELSE Gone(s)
    /\ UNCHANGED <<cliVars, res, http_cfgs_, https_cfgs_, http_runtimes_, https_runtimes_,
                   callback_, rt, backlog, api>>

\* socket().shutdown(shutdown_both, ec) (stream.shutdown(ec) under TLS),
\* then the handler returns and the stream's destructor closes the socket.
\* The response's keep-alive value is not read.
Shutdown(s) ==
    /\ s.pc = "shutdown"
    /\ sess' = Gone(s)
    /\ UNCHANGED <<cliVars, res, http_cfgs_, https_cfgs_, http_runtimes_, https_runtimes_,
                   callback_, rt, backlog, api>>

\* ------------------------------------------------------ session response
\* The response of a session handler, from its construction to http::write.

\* HTTPServerHost::Response res{http::status::ok, req.version()};
\* res.set(http::field::server, ...); res.keep_alive(false);
DefaultResponse(tls) ==
    [status |-> 200,
     Server |-> IF tls THEN "HTTPServerHost/1.0 (TLS)" ELSE "HTTPServerHost/1.0",
     keep_alive |-> FALSE, body |-> 0, ContentLength |-> ""]

\* What a callback can leave in the response: a status, a Server header, a
\* keep-alive value, a body of some size, and a Content-Length header of its
\* own ("" when it sets none).
CallbackResponses(tls) ==
    [status : {200, 204},
     Server : {DefaultResponse(tls).Server},
     keep_alive : BOOLEAN, body : 0..2, ContentLength : {"", "0", "7"}]

\* A handler that computes the length of every body.
NeedsLengthAnyBody(r) == r.body > 0

\* res.body().size() > 0 && res.find(content_length) == res.end()
NeedsLength(r) == r.body > 0 /\ r.ContentLength = ""

\* res.prepare_payload() throws std::invalid_argument when the status allows
\* no body (1xx, 204, 304) and there is one.
ResponseInvalid(r) == r.status = 204 /\ r.body > 0

\* The handler builds the default response.
BuildResponse(tls, cb) ==
    /\ res.pc = "none"
    /\ res' = [pc |-> "default", tls |-> tls, cb |-> cb,
               fields |-> DefaultResponse(tls), left |-> DefaultResponse(tls)]
    /\ UNCHANGED <<cliVars, http_cfgs_, https_cfgs_, http_runtimes_,
                   https_runtimes_, callback_, rt, backlog, sess, api>>

\* if (cb) cb(req, res, client): the callback leaves what it likes in the
\* response, or throws; an empty callback is not called.
CallCallback ==
    /\ res.pc = "default"
    /\ \/ /\ res.cb = "none"
          /\ res' = [res EXCEPT !.pc = "returned"]
       \/ /\ res.cb # "none"
          /\ \E r \in CallbackResponses(res.tls) :
                res' = [res EXCEPT !.pc = "returned", !.fields = r, !.left = r]
       \/ /\ res.cb # "none"
          /\ res' = [pc |-> "none"]
    /\ UNCHANGED <<cliVars, http_cfgs_, https_cfgs_, http_runtimes_,
                   https_runtimes_, callback_, rt, backlog, sess, api>>

\* if (NeedsLength) res.prepare_payload(); http::write(stream, res).  An
\* exception of prepare_payload lands in the handler's catch block and
\* nothing is written.
WritePrepared ==
    /\ res.pc = "returned"
    /\ IF NeedsLength(res.fields)
       THEN IF ResponseInvalid(res.fields)
            THEN res' = [pc |-> "none"]
            ELSE res' = [res EXCEPT !.pc = "written",
                            !.fields.ContentLength = ToString(res.fields.body)]
       ELSE res' = [res EXCEPT !.pc = "written"]
    /\ UNCHANGED <<cliVars, http_cfgs_, https_cfgs_, http_runtimes_,
                   https_runtimes_, callback_, rt, backlog, sess, api>>

\* The handler returns and the response is destroyed.
ResponseDone ==
    /\ res.pc = "written"
    /\ res' = [pc |-> "none"]
    /\ UNCHANGED <<cliVars, http_cfgs_, https_cfgs_, http_runtimes_,
                   https_runtimes_, callback_, rt, backlog, sess, api>>

ResponseNext ==
    \/ \E tls \in BOOLEAN : \E cb \in {"none"} \cup Callbacks :
          BuildResponse(tls, cb)
    \/ CallCallback
    \/ WritePrepared
    \/ ResponseDone

\* ------------------------------------------------- keep-alive sessions
\* RESTCore::Server with set_keep_alive_enabled(true).  Its session handlers
\* are declared in Server.hpp (handle_http_session, handle_https_session
\* with a keep_alive_enabled argument); their loop is the state machine
\* ReadRequest -> Dispatch(callback) -> WriteResponse ->
\* {Continue if keep_alive else Close} of the design document.

\* ReadRequest: the next request on the socket, or a failed read (peer
\* closed, protocol error), which ends the loop.  The wake connection never
\* sends a request.
KeepAliveRead(s) ==
    /\ s.pc = "read"
    /\ \/ /\ s.kind = "client"
          /\ s.reads < MaxRequests
          /\ sess' = Becomes(s, [s EXCEPT !.pc = "dispatch", !.reads = @ + 1])
       \/ sess' = Becomes(s, [s EXCEPT !.pc = "close"])
    /\ UNCHANGED <<cliVars, res, http_cfgs_, https_cfgs_, http_runtimes_, https_runtimes_,
                   callback_, rt, backlog, api>>

\* A session that reads the next request after every response it wrote.
KeepAliveWriteAlwaysContinue(s) ==
    /\ s.pc = "write"
    /\ \/ /\ sess' = Becomes(s, [s EXCEPT !.pc = "read", !.writes = @ + 1])
          /\ UNCHANGED <<rt, backlog>>
       \/ Swallow(s)
    /\ UNCHANGED <<cliVars, res, http_cfgs_, https_cfgs_, http_runtimes_, https_runtimes_,
                   callback_, api>>

\* WriteResponse, then Continue when the keep-alive negotiated for the
\* response written is true, else Close; a write that throws abandons the
\* connection.
KeepAliveWrite(s) ==
    /\ s.pc = "write"
    /\ \/ /\ sess' = Becomes(s, [s EXCEPT
                           !.pc = IF s.keep_alive THEN "read" ELSE "close",
                           !.writes = @ + 1])
          /\ UNCHANGED <<rt, backlog>>
       \/ Swallow(s)
    /\ UNCHANGED <<cliVars, res, http_cfgs_, https_cfgs_, http_runtimes_, https_runtimes_,
                   callback_, api>>

\* Close: the socket is shut down and closed and the session thread ends.
Close(s) ==
    /\ s.pc = "close"
    /\ sess' = Gone(s)
    /\ UNCHANGED <<cliVars, res, http_cfgs_, https_cfgs_, http_runtimes_, https_runtimes_,
                   callback_, rt, backlog, api>>

\* ================================================================= client
\* RESTCore::Client: one persistent Connection, the one-shot streaming call,
\* and the streaming decoder both share.  A call is a sequence of steps of the
\* calling thread; the peer and the transport are the environment.

Statuses == {200, 404}

SeqsUpTo(S, n) == UNION {[1..k -> S] : k \in 0..n}

RECURSIVE Flatten(_)
Flatten(ss) == IF ss = <<>> THEN <<>> ELSE Head(ss) \o Flatten(Tail(ss))

Min(a, b) == IF a <= b THEN a ELSE b

\* A body cut into segments of the given sizes.  Its k-th byte is written k,
\* so that a byte lost, repeated or out of place shows.
RECURSIVE Cut(_, _)
Cut(sizes, from) ==
    IF sizes = <<>> THEN <<>>
    ELSE <<[k \in 1..Head(sizes) |-> from + k]>>
             \o Cut(Tail(sizes), from + Head(sizes))

\* The responses a peer can send: a status, the keep-alive value the header
\* block yields, the body framing (chunked, Content-Length, or neither, where
\* the body runs to the end of the stream), and the body as the segments the
\* peer sends: the chunks of a chunked body, else at most one segment.
Responses ==
    {[status |-> st, keep_alive |-> ka, framing |-> "chunked",
      body |-> Cut(sizes, 0)] :
        st \in Statuses, ka \in BOOLEAN,
        sizes \in SeqsUpTo(1..MaxChunkLen, MaxChunks)}
    \cup
    {[status |-> st, keep_alive |-> ka, framing |-> fr,
      body |-> IF n = 0 THEN <<>> ELSE Cut(<<n>>, 0)] :
        st \in Statuses, ka \in BOOLEAN, fr \in {"length", "eof"},
        n \in 0..MaxBody}

NoResponse == [status |-> 0, keep_alive |-> FALSE, framing |-> "none",
               body |-> <<>>]

NoConnection == [made |-> FALSE, open |-> FALSE, close_reason_ |-> ""]

ServerClose ==
    "Server indicated Connection: close (keep-alive disabled or mismatch)."

PeerClosed ==
    "Peer closed the connection during the HTTP exchange (keep-alive unsupported or timed out)"

\* The calls made through the public interface.
StreamFns == {"Connection::stream_request", "Client::stream_request"}

\* What the last call gave its caller.
NoResult == [kind |-> "none", status |-> 0, code |-> "", message |-> ""]
Returned(st) == [kind |-> "status", status |-> st, code |-> "", message |-> ""]
Threw(kind, message) ==
    [kind |-> kind, status |-> 0, code |-> "", message |-> message]

\* throw beast::system_error{se.code(), message}
Rethrown(ec, message) ==
    [kind |-> "system_error", status |-> 0, code |-> ec, message |-> message]

ClientInit ==
    /\ conn = NoConnection
    /\ call = [pc |-> "idle", fn |-> "none", sock |-> "none", wrote |-> FALSE,
               reason |-> "", given |-> FALSE, hdr |-> "", sent |-> ""]
    /\ resp = NoResponse
    /\ wire = <<>>
    /\ parser_done = FALSE
    /\ saw_end_of_stream = FALSE
    /\ on_chunk_calls = <<>>
    /\ result = NoResult
    /\ req = [pc |-> "none"]

\* The caller is between calls and holds nothing of an earlier one.
Ready == call.pc = "idle" /\ call.fn = "none"

\* Connection::is_open
is_open(c) == c.made /\ c.open

\* A close whose default reason replaces the reason of a closed connection.
closeAlwaysRecords(c, reason) ==
    [c EXCEPT !.open = FALSE,
              !.close_reason_ = IF reason # "" THEN reason
                                ELSE "Connection closed"]

\* Connection::close(reason): the stream is shut down and released; the
\* reason is recorded, "Connection closed" standing in for an empty reason
\* when the connection was open.
close(c, reason) ==
    [c EXCEPT !.open = FALSE,
              !.close_reason_ = IF is_open(c)
                                THEN IF reason # "" THEN reason
                                     ELSE "Connection closed"
                                ELSE IF reason # "" THEN reason ELSE @]

\* A closed error that does not say why the connection is closed.
ClosedErrorNoReason(c) == Threw("runtime_error", "")

\* throw std::runtime_error("Connection is closed[: reason]")
ClosedError(c) == Threw("runtime_error", c.close_reason_)

\* A catch block of Connection::request with one message for every error.
ExchangeMessageSame(ec) == "HTTP keep-alive exchange failed"

\* The message of the catch block of Connection::request.
ExchangeMessage(ec) ==
    IF ec = "end_of_stream" THEN PeerClosed
    ELSE "HTTP keep-alive exchange failed"

\* The message of the catch block of Connection::stream_request.
StreamMessage(ec) ==
    IF ec = "end_of_stream" THEN PeerClosed
    ELSE "HTTP keep-alive stream failed"

\* A connection that stays open whatever the response says.
AfterExchangeKeepOpen(c, keep_alive) == [c EXCEPT !.close_reason_ = ""]

\* if (!res.keep_alive()) close(...) else close_reason_.clear()
AfterExchange(c, keep_alive) ==
    IF ~keep_alive THEN close(c, ServerClose)
    ELSE [c EXCEPT !.close_reason_ = ""]

\* A chunked stream that takes the header's keep-alive value.
ChunkedKeepAliveFromHeader(r) == r.keep_alive

\* keep_alive = false after the chunked loop.
ChunkedKeepAlive(r) == FALSE

\* A fixed-length stream that takes the header's keep-alive value even after
\* an end of stream.
FixedKeepAliveFromHeader(saw, r) == r.keep_alive

\* keep_alive = saw_end_of_stream ? false : parser.get().keep_alive()
FixedKeepAlive(saw, r) == IF saw THEN FALSE ELSE r.keep_alive

\* parser.is_done() when read_header returns: a message whose header
\* announces an empty body is complete at the end of its header.
DoneAfterHeader(r) == r.framing = "length" /\ r.body = <<>>

\* Connection::Connection: resolve, connect (and handshake); an error leaves
\* no object behind.
Connection ==
    /\ Ready
    /\ \/ /\ conn' = [made |-> TRUE, open |-> TRUE, close_reason_ |-> ""]
          /\ result' = NoResult
       \/ /\ conn' = NoConnection
          /\ result' = Threw("system_error", "connect")
    /\ call' = [call EXCEPT !.fn = "Connection::Connection", !.sock = "none"]
    /\ UNCHANGED <<resp, wire, parser_done, saw_end_of_stream, on_chunk_calls,
                   srvVars, req>>

\* A close that records no reason of the caller.
Connection_closeDropReason(reason) ==
    /\ Ready
    /\ conn.made
    /\ conn' = close(conn, "")
    /\ result' = NoResult
    /\ call' = [call EXCEPT !.fn = "Connection::close", !.sock = "none",
                            !.reason = reason]
    /\ UNCHANGED <<resp, wire, parser_done, saw_end_of_stream, on_chunk_calls,
                   srvVars, req>>

\* Connection::close called by the owner, with or without a reason.
Connection_close(reason) ==
    /\ Ready
    /\ conn.made
    /\ conn' = close(conn, reason)
    /\ result' = NoResult
    /\ call' = [call EXCEPT !.fn = "Connection::close", !.sock = "none",
                            !.reason = reason]
    /\ UNCHANGED <<resp, wire, parser_done, saw_end_of_stream, on_chunk_calls,
                   srvVars, req>>

\* A Connection just constructed: connected, no close reason.
Fresh == [made |-> TRUE, open |-> TRUE, close_reason_ |-> ""]

\* What a move leaves in its source: the stream pointers are null, and
\* close_reason_ is a moved-from std::string, valid but unspecified: `left`
\* is what it holds.
MovedFrom(c, left) == [c EXCEPT !.open = FALSE, !.close_reason_ = left]

\* The values a moved-from std::string may hold.
LeftBy(reason) == {"", reason}

\* The Connection objects the owner moves into `conn`: a fresh one, one the
\* owner closed, one already moved from.
Sources == {Fresh, close(Fresh, ""), MovedFrom(Fresh, "")}

\* Connection(Connection&& other) with `conn` as other: the new object takes
\* the streams and the close reason, `conn` is left moved-from.
Connection_move_from ==
    /\ Ready
    /\ conn.made
    /\ \E left \in LeftBy(conn.close_reason_) : conn' = MovedFrom(conn, left)
    /\ result' = NoResult
    /\ call' = [call EXCEPT !.fn = "Connection::Connection(Connection&&)",
                            !.sock = "none"]
    /\ UNCHANGED <<resp, wire, parser_done, saw_end_of_stream, on_chunk_calls,
                   srvVars, req>>

\* A move assignment that keeps the close reason recorded by its own close().
MoveAssignKeepReason(c, other) ==
    [close(c, "") EXCEPT !.open = other.open]

\* operator=(Connection&& other) on `conn`: close(), then the streams and
\* the close reason of other.
MoveAssign(c, other) ==
    [close(c, "") EXCEPT !.open = other.open,
                         !.close_reason_ = other.close_reason_]

Connection_move_assign ==
    /\ Ready
    /\ conn.made
    /\ \E other \in Sources : conn' = MoveAssign(conn, other)
    /\ result' = NoResult
    /\ call' = [call EXCEPT !.fn = "Connection::operator=", !.sock = "none"]
    /\ UNCHANGED <<resp, wire, parser_done, saw_end_of_stream, on_chunk_calls,
                   srvVars, req>>

\* The Connection header a caller passes in `headers`: none, or a value.
CallerConnection == {"", "close", "keep-alive"}

\* The calls that connect a socket of their own.
OneShotFns == {"Client::request", "Client::stream_request"}

\* req.keep_alive(false) in the one-shot calls, req.keep_alive(true) in the
\* calls of a Connection.
DefaultConnection(fn) == IF fn \in OneShotFns THEN "close" ELSE "keep-alive"

\* The Connection marking of the request built: the default, then
\* for (kv : headers) req.set(kv.first, kv.second) replaces it.
ReqConnection(fn, hdr) == IF hdr = "" THEN DefaultConnection(fn) ELSE hdr

\* A one-shot request that leaves its socket to the caller when it returns.
Client_requestKeepsSocket(hdr) ==
    /\ Ready
    /\ LET fn == "Client::request"
       IN \/ \E r \in Responses :
               /\ resp' = r
               /\ result' = Returned(r.status)
               /\ call' = [call EXCEPT !.fn = fn, !.sock = "open",
                                       !.wrote = TRUE, !.hdr = hdr,
                                       !.sent = ReqConnection(fn, hdr)]
          \/ /\ resp' = NoResponse
             /\ result' = Threw("system_error", "connect")
             /\ call' = [call EXCEPT !.fn = fn, !.sock = "none",
                                     !.wrote = FALSE, !.hdr = hdr]
          \/ /\ resp' = NoResponse
             /\ result' = Threw("system_error", "transport")
             /\ call' = [call EXCEPT !.fn = fn, !.sock = "none",
                                     !.wrote = TRUE, !.hdr = hdr,
                                     !.sent = ReqConnection(fn, hdr)]
    /\ UNCHANGED <<conn, wire, parser_done, saw_end_of_stream, on_chunk_calls,
                   srvVars, req>>

\* A one-shot request that writes its request before the connect has
\* succeeded.
Client_requestWritesFirst(hdr) ==
    /\ Ready
    /\ LET fn == "Client::request"
       IN \/ \E r \in Responses :
               /\ resp' = r
               /\ result' = Returned(r.status)
               /\ call' = [call EXCEPT !.fn = fn, !.sock = "none",
                                       !.wrote = TRUE, !.hdr = hdr,
                                       !.sent = ReqConnection(fn, hdr)]
          \/ /\ resp' = NoResponse
             /\ result' \in {Threw("system_error", "connect"),
                             Threw("system_error", "transport")}
             /\ call' = [call EXCEPT !.fn = fn, !.sock = "none",
                                     !.wrote = TRUE, !.hdr = hdr,
                                     !.sent = ReqConnection(fn, hdr)]
    /\ UNCHANGED <<conn, wire, parser_done, saw_end_of_stream, on_chunk_calls,
                   srvVars, req>>

\* Client::request (Get, Post, Put, Delete, Head in host/port or URL form):
\* resolve and connect a socket of its own, write one request, read the whole
\* response, shut the socket down; the stream object is destroyed on return
\* and on every throw.
Client_request(hdr) ==
    /\ Ready
    /\ LET fn == "Client::request"
       IN \/ \E r \in Responses :
               /\ resp' = r
               /\ result' = Returned(r.status)
               /\ call' = [call EXCEPT !.fn = fn, !.sock = "none",
                                       !.wrote = TRUE, !.hdr = hdr,
                                       !.sent = ReqConnection(fn, hdr)]
          \/ /\ resp' = NoResponse
             /\ result' = Threw("system_error", "connect")
             /\ call' = [call EXCEPT !.fn = fn, !.sock = "none",
                                     !.wrote = FALSE, !.hdr = hdr]
          \/ /\ resp' = NoResponse
             /\ result' = Threw("system_error", "transport")
             /\ call' = [call EXCEPT !.fn = fn, !.sock = "none",
                                     !.wrote = TRUE, !.hdr = hdr,
                                     !.sent = ReqConnection(fn, hdr)]
    /\ UNCHANGED <<conn, wire, parser_done, saw_end_of_stream, on_chunk_calls,
                   srvVars, req>>

\* Connection::request: the whole exchange, then the keep-alive decision.
Connection_request(hdr) ==
    /\ Ready
    /\ conn.made
    /\ IF ~is_open(conn)
       THEN /\ result' = ClosedError(conn)
            /\ UNCHANGED <<conn, resp>>
       ELSE \/ \E r \in Responses :
                 /\ resp' = r
                 /\ conn' = AfterExchange(conn, r.keep_alive)
                 /\ result' = Returned(r.status)
            \/ \E ec \in {"end_of_stream", "other"} :
                 /\ conn' = close(conn, ExchangeMessage(ec))
                 /\ result' = Rethrown(ec, ExchangeMessage(ec))
                 /\ resp' = NoResponse
    /\ call' = [call EXCEPT !.fn = "Connection::request", !.sock = "none",
                            !.wrote = is_open(conn), !.hdr = hdr,
                            !.sent = IF is_open(conn)
                                     THEN ReqConnection("Connection::request",
                                                        hdr)
                                     ELSE ""]
    /\ UNCHANGED <<wire, parser_done, saw_end_of_stream, on_chunk_calls,
                   srvVars, req>>

\* ----------------------------------------------------- streaming decoder

Persistent == call.fn = "Connection::stream_request"

\* The position after read_header: the loop of the response's framing when
\* its condition !parser.is_done() holds, the statement after it otherwise.
AfterHeader(r) ==
    IF r.framing = "chunked"
    THEN IF DoneAfterHeader(r) THEN "chunked_end" ELSE "chunked"
    ELSE IF DoneAfterHeader(r) THEN "fixed_end" ELSE "fixed"

\* http::write and http::read_header of perform_stream.
ReadHeader(fn, sock, hdr) ==
    \E r \in Responses :
        /\ resp' = r
        /\ wire' = r.body
        /\ parser_done' = DoneAfterHeader(r)
        /\ saw_end_of_stream' = FALSE
        /\ on_chunk_calls' = <<>>
        /\ call' = [pc |-> AfterHeader(r), fn |-> fn, sock |-> sock,
                    wrote |-> TRUE, reason |-> "", given |-> TRUE,
                    hdr |-> hdr, sent |-> ReqConnection(fn, hdr)]
        /\ result' = NoResult

\* The call ends before anything is handed to the transport.
EndCall(fn, given, hdr, r) ==
    /\ call' = [pc |-> "idle", fn |-> fn, sock |-> "none", wrote |-> FALSE,
                reason |-> "", given |-> given, hdr |-> hdr, sent |-> ""]
    /\ result' = r
    /\ UNCHANGED <<resp, wire, parser_done, saw_end_of_stream, on_chunk_calls>>

\* http::write or http::read_header throws: the call ends with no response
\* header parsed.
FailExchange(fn, hdr, r) ==
    /\ call' = [pc |-> "idle", fn |-> fn, sock |-> "none", wrote |-> TRUE,
                reason |-> "", given |-> TRUE, hdr |-> hdr,
                sent |-> ReqConnection(fn, hdr)]
    /\ result' = r
    /\ UNCHANGED <<resp, wire, parser_done, saw_end_of_stream, on_chunk_calls>>

\* A stream_request that looks at the connection before it looks at on_chunk.
Connection_stream_requestClosedFirst(given, hdr) ==
    /\ Ready
    /\ conn.made
    /\ LET fn == "Connection::stream_request"
       IN IF ~is_open(conn)
          THEN /\ EndCall(fn, given, hdr, ClosedError(conn))
               /\ UNCHANGED conn
          ELSE IF ~given
          THEN /\ EndCall(fn, FALSE, hdr, Threw("invalid_argument", ""))
               /\ UNCHANGED conn
          ELSE \/ /\ ReadHeader(fn, "none", hdr)
                  /\ UNCHANGED conn
               \/ \E ec \in {"end_of_stream", "other"} :
                     /\ conn' = close(conn, StreamMessage(ec))
                     /\ FailExchange(fn, hdr, Rethrown(ec, StreamMessage(ec)))
    /\ UNCHANGED <<srvVars, req>>

\* Connection::stream_request up to the end of read_header.  given: whether
\* the caller passed a non-empty on_chunk.
Connection_stream_request(given, hdr) ==
    /\ Ready
    /\ conn.made
    /\ LET fn == "Connection::stream_request"
       IN IF ~given
          THEN /\ EndCall(fn, FALSE, hdr, Threw("invalid_argument", ""))
               /\ UNCHANGED conn
          ELSE IF ~is_open(conn)
          THEN /\ EndCall(fn, TRUE, hdr, ClosedError(conn))
               /\ UNCHANGED conn
          ELSE \/ /\ ReadHeader(fn, "none", hdr)
                  /\ UNCHANGED conn
               \/ \E ec \in {"end_of_stream", "other"} :
                     /\ conn' = close(conn, StreamMessage(ec))
                     /\ FailExchange(fn, hdr, Rethrown(ec, StreamMessage(ec)))
    /\ UNCHANGED <<srvVars, req>>

\* Client::stream_request (GetStream, PostStream) up to the end of
\* read_header: its own socket, connected before the request is written.
Client_stream_request(given, hdr) ==
    /\ Ready
    /\ LET fn == "Client::stream_request"
       IN IF ~given
          THEN EndCall(fn, FALSE, hdr, Threw("invalid_argument", ""))
          ELSE \/ ReadHeader(fn, "open", hdr)
               \/ EndCall(fn, TRUE, hdr, Threw("system_error", "connect"))
               \/ FailExchange(fn, hdr, Threw("system_error", "transport"))
    /\ UNCHANGED <<conn, srvVars, req>>

\* A stream error that is rethrown with the persistent connection left as
\* it is.
StreamThrowLeavesOpen ==
    /\ conn' = conn
    /\ result' = IF Persistent
                 THEN Rethrown("other", StreamMessage("other"))
                 ELSE Threw("system_error", "transport")
    /\ call' = [call EXCEPT !.pc = "idle", !.sock = "none"]

\* An error other than the tolerated ones leaves perform_stream: the
\* persistent connection is closed with a diagnostic and the error rethrown;
\* the one-shot call's stream is destroyed while the error propagates.
StreamThrow ==
    /\ conn' = IF Persistent THEN close(conn, StreamMessage("other")) ELSE conn
    /\ result' = IF Persistent
                 THEN Rethrown("other", StreamMessage("other"))
                 ELSE Threw("system_error", "transport")
    /\ call' = [call EXCEPT !.pc = "idle", !.sock = "none"]

\* An exception thrown by the caller's on_chunk: it is no beast::system_error,
\* so no handler of the call catches it.
CallbackThrow ==
    /\ result' = Threw("exception", "on_chunk")
    /\ call' = [call EXCEPT !.pc = "idle", !.sock = "none"]
    /\ UNCHANGED conn

\* The call returns the status: the persistent connection is closed or kept
\* according to keep_alive, the one-shot call shuts its socket down.
StreamReturn(keep_alive) ==
    /\ conn' = IF Persistent THEN AfterExchange(conn, keep_alive) ELSE conn
    /\ result' = Returned(resp.status)
    /\ call' = [call EXCEPT !.pc = "idle", !.sock = "none"]

\* A callback that is handed the whole segment whatever part was parsed.
PieceWholeSegment(n) == Head(wire)

\* The first n bytes of the segment being delivered, and what is left.
Piece(n) == SubSeq(Head(wire), 1, n)

Rest(n) ==
    IF n = Len(Head(wire)) THEN Tail(wire)
    ELSE <<SubSeq(Head(wire), n + 1, Len(Head(wire)))>> \o Tail(wire)

\* A stream that reports completion once with the last bytes and once more
\* with an empty payload.
InvokeDoneTwice(data, done) ==
    IF done /\ data # <<>>
    THEN on_chunk_calls \o <<[data |-> data, done |-> TRUE],
                             [data |-> <<>>, done |-> TRUE]>>
    ELSE Append(on_chunk_calls, [data |-> data, done |-> done])

\* on_chunk(data, done)
Invoke(data, done) == Append(on_chunk_calls, [data |-> data, done |-> done])

\* One http::read_some of the chunked loop.  The parser hands each non-empty
\* piece of chunk body to chunk_body_cb, which forwards it with done = false.
ChunkedReadSome ==
    /\ call.pc = "chunked"
    /\ \/ /\ wire # <<>>
          /\ \E n \in 1..Len(Head(wire)) :
                /\ on_chunk_calls' = Invoke(Piece(n), FALSE)
                /\ wire' = Rest(n)
          /\ \/ UNCHANGED <<conn, call, result>>
             \/ CallbackThrow
          /\ UNCHANGED <<parser_done, saw_end_of_stream>>
       \/ /\ wire = <<>>          \* the zero-size chunk: the message is done
          /\ parser_done' = TRUE
          /\ call' = [call EXCEPT !.pc = "chunked_end"]
          /\ UNCHANGED <<conn, wire, saw_end_of_stream, on_chunk_calls, result>>
       \/ /\ saw_end_of_stream' = (Persistent \/ saw_end_of_stream)
          /\ call' = [call EXCEPT !.pc = "chunked_end"]   \* ec == end_of_stream
          /\ UNCHANGED <<conn, wire, parser_done, on_chunk_calls, result>>
       \/ /\ StreamThrow
          /\ UNCHANGED <<wire, parser_done, saw_end_of_stream, on_chunk_calls>>
    /\ UNCHANGED <<resp, srvVars, req>>

\* A chunked stream that throws, with no final on_chunk, when its loop ended
\* before the zero-size chunk.
ChunkedEndRequiresDone ==
    /\ call.pc = "chunked_end"
    /\ IF parser_done
       THEN /\ on_chunk_calls' = Invoke(<<>>, TRUE)
            /\ \/ StreamReturn(ChunkedKeepAlive(resp))
               \/ CallbackThrow
       ELSE /\ on_chunk_calls' = on_chunk_calls
            /\ StreamThrow
    /\ UNCHANGED <<resp, wire, parser_done, saw_end_of_stream, srvVars, req>>

\* After the chunked loop: on_chunk({}, true); keep_alive = false; return.
ChunkedEnd ==
    /\ call.pc = "chunked_end"
    /\ on_chunk_calls' = Invoke(<<>>, TRUE)
    /\ \/ StreamReturn(ChunkedKeepAlive(resp))
       \/ CallbackThrow
    /\ UNCHANGED <<resp, wire, parser_done, saw_end_of_stream, srvVars, req>>

\* One http::read_some of the fixed-length loop into the storage window,
\* the on_chunk call it leads to, and the loop's exit test.
FixedReadSome ==
    /\ call.pc = "fixed"
    /\ \/ /\ wire # <<>>          \* body bytes, maybe the last ones
          /\ \E n \in 1..Min(StorageSize, Len(Head(wire))) :
                LET done == resp.framing = "length" /\ Rest(n) = <<>>
                IN /\ on_chunk_calls' = Invoke(Piece(n), done)
                   /\ wire' = Rest(n)
                   /\ parser_done' = done
                   /\ \/ /\ call' = [call EXCEPT !.pc = IF done THEN "fixed_end"
                                                       ELSE "fixed"]
                         /\ UNCHANGED <<conn, result>>
                      \/ CallbackThrow
          /\ UNCHANGED saw_end_of_stream
       \/ /\ wire = <<>>          \* the peer closes a body that runs to EOF
          /\ resp.framing = "eof"
          /\ on_chunk_calls' = Invoke(<<>>, TRUE)
          /\ parser_done' = TRUE
          /\ \/ /\ call' = [call EXCEPT !.pc = "fixed_end"]
                /\ UNCHANGED <<conn, result>>
             \/ CallbackThrow
          /\ UNCHANGED <<wire, saw_end_of_stream>>
       \/ /\ \E n \in 0..(IF wire = <<>> THEN 0    \* ec == end_of_stream
                          ELSE Min(StorageSize, Len(Head(wire)) - 1)) :
                /\ on_chunk_calls' = IF n > 0 THEN Invoke(Piece(n), FALSE)
                                     ELSE on_chunk_calls
                /\ wire' = IF n > 0 THEN Rest(n) ELSE wire
          /\ saw_end_of_stream' = (Persistent \/ saw_end_of_stream)
          /\ call' = [call EXCEPT !.pc = "fixed_end"]
          /\ UNCHANGED <<conn, parser_done, result>>
       \/ /\ StreamThrow
          /\ UNCHANGED <<wire, parser_done, saw_end_of_stream, on_chunk_calls>>
    /\ UNCHANGED <<resp, srvVars, req>>

\* A fixed-length stream that throws when its loop ended with the message
\* incomplete.
FixedEndRequiresDone ==
    /\ call.pc = "fixed_end"
    /\ IF parser_done
       THEN StreamReturn(FixedKeepAlive(saw_end_of_stream, resp))
       ELSE StreamThrow
    /\ UNCHANGED <<resp, wire, parser_done, saw_end_of_stream, on_chunk_calls,
                   srvVars, req>>

\* After the fixed-length loop: the keep-alive decision, then return.
FixedEnd ==
    /\ call.pc = "fixed_end"
    /\ StreamReturn(FixedKeepAlive(saw_end_of_stream, resp))
    /\ UNCHANGED <<resp, wire, parser_done, saw_end_of_stream, on_chunk_calls,
                   srvVars, req>>

\* The call's frame is gone: its locals (parser, buffer, flags) are destroyed
\* and the caller has taken the outcome; only the Connection lives on.
Forget ==
    /\ call.pc = "idle"
    /\ call.fn # "none"
    /\ call' = [pc |-> "idle", fn |-> "none", sock |-> "none", wrote |-> FALSE,
                reason |-> "", given |-> FALSE, hdr |-> "", sent |-> ""]
    /\ resp' = NoResponse
    /\ wire' = <<>>
    /\ parser_done' = FALSE
    /\ saw_end_of_stream' = FALSE
    /\ on_chunk_calls' = <<>>
    /\ result' = NoResult
    /\ UNCHANGED <<conn, srvVars, req>>

\* ------------------------------------------------------- request setup
\* The request every client call builds before it touches the transport:
\* http::request<string_body> req{method, target, 11}, the default fields,
\* the caller's headers, then body, content type and payload fields.

ClientFns == {"Connection::request", "Connection::stream_request",
              "Client::request", "Client::stream_request"}

\* The verbs as prepare_payload tells them apart: GET stands for the verbs
\* it treats like GET (HEAD, DELETE), POST for those it treats like POST
\* (PUT, OPTIONS).
Verbs == {"GET", "POST", "TRACE"}

\* const Headers& headers, as far as it names fields the client sets itself;
\* "" stands for a field the caller does not pass.
CallerHeaders ==
    [Host : {"", "other.example"}, UserAgent : {"", "custom-agent"},
     Connection : CallerConnection, ContentType : {"", "text/html"},
     ContentLength : {"", "7"}]

\* const std::string* body: nullptr, or a string of some size.
Bodies ==
    {[given |-> FALSE, size |-> 0]}
        \cup {[given |-> TRUE, size |-> n] : n \in 0..1}

\* const std::string* content_type: nullptr (""), or a media type.
ContentTypes == {"", "text/plain"}

\* What the one-shot helpers hand to Client::request and
\* Client::stream_request: no body with HEAD, GET and DELETE, a body and a
\* content type with POST and PUT.  Connection::request and
\* Connection::stream_request are public and take any combination.
Callable(fn, method, body, content_type) ==
    fn \in OneShotFns =>
        \/ method = "GET" /\ ~body.given /\ content_type = ""
        \/ method = "POST" /\ body.given /\ content_type # ""

\* req.set(host); req.set(user_agent); req.keep_alive(...)
DefaultFields(fn) ==
    [Host |-> "host", UserAgent |-> "HTTPClient/1.0 (Boost.Beast)",
     Connection |-> DefaultConnection(fn), ContentType |-> "",
     ContentLength |-> ""]

\* Caller headers that leave the Host the client has set.
SetHeadersKeepHost(fn, fields, headers) ==
    [Host |-> fields.Host,
     UserAgent |-> IF headers.UserAgent = "" THEN fields.UserAgent
                   ELSE headers.UserAgent,
     Connection |-> ReqConnection(fn, headers.Connection),
     ContentType |-> IF headers.ContentType = "" THEN fields.ContentType
                     ELSE headers.ContentType,
     ContentLength |-> IF headers.ContentLength = "" THEN fields.ContentLength
                       ELSE headers.ContentLength]

\* for (const auto& kv : headers) req.set(kv.first, kv.second): set replaces
\* the value of a field that is already there.
SetHeaders(fn, fields, headers) ==
    [Host |-> IF headers.Host = "" THEN fields.Host ELSE headers.Host,
     UserAgent |-> IF headers.UserAgent = "" THEN fields.UserAgent
                   ELSE headers.UserAgent,
     Connection |-> ReqConnection(fn, headers.Connection),
     ContentType |-> IF headers.ContentType = "" THEN fields.ContentType
                     ELSE headers.ContentType,
     ContentLength |-> IF headers.ContentLength = "" THEN fields.ContentLength
                       ELSE headers.ContentLength]

\* req.prepare_payload() throws std::invalid_argument for a TRACE request
\* with a body.
PayloadInvalid(method, n) == method = "TRACE" /\ n > 0

\* req.prepare_payload() of a request with a string body of n bytes:
\* Content-Length is set to n when n > 0 or the verb is one that carries a
\* body (POST, PUT, OPTIONS); otherwise the field is removed.
prepare_payload(method, fields, n) ==
    IF n > 0 \/ method = "POST"
    THEN [fields EXCEPT !.ContentLength = ToString(n)]
    ELSE [fields EXCEPT !.ContentLength = ""]

\* if (body) { req.set(content_type, content_type ? *content_type :
\* "application/octet-stream"); req.body() = *body; req.prepare_payload(); }
SetBody(method, fields, body, content_type) ==
    IF ~body.given THEN fields
    ELSE LET typed == [fields EXCEPT !.ContentType =
                          IF content_type = "" THEN "application/octet-stream"
                          ELSE content_type]
         IN IF PayloadInvalid(method, body.size) THEN typed
            ELSE prepare_payload(method, typed, body.size)

\* The request setup of a client call, from its arguments to the request
\* handed to http::write, or to the exception of prepare_payload.
RequestSetup(fn, method, headers, body, content_type) ==
    /\ req.pc = "none"
    /\ Callable(fn, method, body, content_type)
    /\ req' = [pc |-> IF body.given /\ PayloadInvalid(method, body.size)
                      THEN "threw" ELSE "built",
               fn |-> fn, method |-> method, headers |-> headers,
               body |-> body, content_type |-> content_type,
               fields |-> SetBody(method,
                                  SetHeaders(fn, DefaultFields(fn), headers),
                                  body, content_type)]
    /\ UNCHANGED <<conn, call, resp, wire, parser_done, saw_end_of_stream,
                   on_chunk_calls, result, srvVars>>

\* The call is over and its request is destroyed.
RequestDone ==
    /\ req.pc # "none"
    /\ req' = [pc |-> "none"]
    /\ UNCHANGED <<conn, call, resp, wire, parser_done, saw_end_of_stream,
                   on_chunk_calls, result, srvVars>>

RequestNext ==
    \/ \E fn \in ClientFns : \E method \in Verbs : \E headers \in CallerHeaders :
          \E body \in Bodies : \E content_type \in ContentTypes :
             RequestSetup(fn, method, headers, body, content_type)
    \/ RequestDone

ClientNext ==
    \/ Connection
    \/ \E reason \in {"", "shutting down"} : Connection_close(reason)
    \/ Connection_move_from
    \/ Connection_move_assign
    \/ \E hdr \in CallerConnection : Connection_request(hdr)
    \/ \E hdr \in CallerConnection : Client_request(hdr)
    \/ \E given \in BOOLEAN : \E hdr \in CallerConnection :
          Connection_stream_request(given, hdr)
    \/ \E given \in BOOLEAN : \E hdr \in CallerConnection :
          Client_stream_request(given, hdr)
    \/ ChunkedReadSome
    \/ ChunkedEnd
    \/ FixedReadSome
    \/ FixedEnd
    \/ Forget


\* ------------------------------------------------------------ specification

ApiStep ==
    \/ \E cb \in Callbacks : set_callback(cb)
    \/ \E cfg \in HttpInputs : listen_http(cfg)
    \/ \E cfg \in HttpsInputs : listen_https(cfg)
    \/ start
    \/ StopCall

StopStep == StopSignal \/ StopWake \/ StopJoin \/ StopClear

\* The steps a listener thread takes on its own.
ListenerStep(i) ==
    Bind(i) \/ Listen(i) \/ LoadTlsContext(i) \/ CheckRunning(i)
        \/ Accept(i)

SessionStep(s) ==
    Handshake(s) \/ ReadRequest(s) \/ Dispatch(s) \/ WriteResponse(s)
        \/ Shutdown(s) \/ Return(s)

KeepAliveSessionStep(s) ==
    Handshake(s) \/ KeepAliveRead(s) \/ Dispatch(s) \/ KeepAliveWrite(s)
        \/ Close(s) \/ Return(s)

Init == ServerInit /\ ClientInit

Next ==
    \/ ApiStep
    \/ StopStep
    \/ \E i \in RtIds : ListenerStep(i)
    \/ \E i \in RtIds : AcceptError(i)
    \/ \E i \in RtIds : ClientConnect(i)
    \/ \E s \in Sessions : SessionStep(s)

Spec == Init /\ [][Next]_vars

ClientSpec == Init /\ [][ClientNext]_vars

\* The request setup alone, over all its arguments.
RequestSpec == Init /\ [][RequestNext]_vars

\* The response of one session handler alone, over all a callback can do.
ResponseSpec == Init /\ [][ResponseNext]_vars

\* The server with keep-alive handling enabled.
KeepAliveNext ==
    \/ ApiStep
    \/ StopStep
    \/ \E i \in RtIds : ListenerStep(i)
    \/ \E i \in RtIds : AcceptError(i)
    \/ \E i \in RtIds : ClientConnect(i)
    \/ \E s \in Sessions : KeepAliveSessionStep(s)

KeepAliveSpec == Init /\ [][KeepAliveNext]_vars

\* The scheduler runs every thread that can take a step: the thread inside
\* stop() and each listener thread.  Nothing obliges a client to connect or
\* accept() to fail, and session threads are not needed for stop() to return.
Fairness ==
    /\ WF_vars(StopStep)
    /\ \A i \in RtIds : WF_vars(ListenerStep(i))

FairSpec == Init /\ [][Next]_vars /\ Fairness

\* ------------------------------------------------------------ server claims

InStop == api.pc \in {"signal", "wake", "join", "clear"}

NoThreads == \A i \in RtIds : rt[i] = NoRuntime

\* C1: once stop() has been entered it returns, and by then every accept
\* loop thread has exited, whatever the interleaving of stop(), the listener
\* threads, clients and sessions (FairSpec).
StopTerminates ==
    (api.pc = "signal") ~>
        (api.pc = "stopped" /\ \A i \in RtIds : rt[i].pc \in {"none", "exited"})

\* stop() has returned after its listener accepted both a real client and
\* the wake connection.
StopTerminatesWitness ==
    /\ api.pc = "stopped"
    /\ \E s \in Sessions : s.kind = "wake"
    /\ \E s \in Sessions : s.kind = "client"

\* C2: a step of stop() on a server without runtimes changes nothing but
\* the caller's own position, and such a stop() is never blocked.
StopIdempotent ==
    /\ []((InStop /\ AllRuntimes = <<>>) => ENABLED StopStep)
    /\ [][(InStop /\ api' # api /\ AllRuntimes = <<>>) =>
              UNCHANGED <<http_cfgs_, https_cfgs_, http_runtimes_,
                          https_runtimes_, callback_, rt, backlog, sess>>]_vars

\* A stop() on a server that an earlier stop() already shut down (its wake
\* connection is still around) is about to return, endpoints still registered.
StopIdempotentWitness ==
    /\ api.pc = "clear"
    /\ AllRuntimes = <<>>
    /\ NoThreads
    /\ Len(http_cfgs_) + Len(https_cfgs_) > 0
    /\ \E s \in Sessions : s.kind = "wake"

\* C3: when stop() has returned, both runtime lists are empty, no listener
\* thread is left (each was joined after it exited), no running flag is set
\* and no acceptor is left to take a connection.
StopPostcondition ==
    api.pc = "stopped" =>
        /\ http_runtimes_ = <<>>
        /\ https_runtimes_ = <<>>
        /\ NoThreads
        /\ \A i \in RtIds : ~rt[i].running /\ ~rt[i].joinable
        /\ \A i \in RtIds : backlog[i] = <<>>

\* stop() has returned on a server with a registered endpoint whose listener
\* had to be woken.
StopPostconditionWitness ==
    /\ api.pc = "stopped"
    /\ http_cfgs_ # <<>>
    /\ \E s \in Sessions : s.kind = "wake" /\ ~s.tls

OneRequestPerSession ==
    /\ [](\A s \in Sessions :
            /\ s.reads <= 1 /\ s.calls <= s.reads /\ s.writes <= s.reads
            /\ s.pc \in {"handshake", "read", "caught"} => s.reads = 0
            /\ s.pc \in {"dispatch", "write", "shutdown"} => s.reads = 1
            /\ s.pc = "dispatch" => s.calls = 0
            /\ s.pc = "shutdown" <=> s.writes = 1)
    /\ [][\A s \in Sessions :
             (s.pc = "shutdown" /\ CopiesIn(s, sess') < CopiesIn(s, sess))
                 => sess' = Gone(s)]_vars

\* A response on which the callback set keep-alive has been written.
OneRequestPerSessionWitness ==
    \E s \in Sessions :
        s.pc = "shutdown" /\ s.keep_alive /\ s.calls = 1 /\ s.writes = 1

InCatch == {s \in Sessions : s.pc = "caught"}

\* C6: a step in which a session's exception is caught, or in which a
\* session ends, changes that one session and leaves every listener thread,
\* every queued connection, every other session and the server object as
\* they were.
SessionErrorsContained ==
    [][(\/ BagCardinality(sess') < BagCardinality(sess)
        \/ \E s \in BagToSet(sess') :
              s.pc = "caught" /\ CopiesIn(s, sess') > CopiesIn(s, sess)) =>
          /\ \E s \in Sessions :
                \/ sess' = Gone(s)
                \/ \E n \in BagToSet(sess') :
                      n.pc = "caught" /\ sess' = Becomes(s, n)
          /\ UNCHANGED <<http_cfgs_, https_cfgs_, http_runtimes_,
                         https_runtimes_, callback_, rt, backlog, api>>]_vars

\* A client's session is in its catch block after the callback ran or could
\* have run, while the listener that accepted it waits in accept() with
\* running set.
SessionErrorsContainedWitness ==
    /\ \E s \in InCatch : s.kind = "client" /\ s.cb # "none"
    /\ \E i \in RtIds : rt[i].pc = "accept" /\ rt[i].running

\* The sessions a step has put into state n.
Entered(n) == CopiesIn(n, sess') > CopiesIn(n, sess)

\* The session in state s takes the step and is in state n after it.
Steps(s, n) == n # s /\ sess' = Becomes(s, n)

\* A session in its catch block does nothing but return.
CaughtOnlyReturns ==
    \A s \in InCatch : CopiesIn(s, sess') < CopiesIn(s, sess) => sess' = Gone(s)

\* C17: a TLS session does the server-side handshake before it reads a
\* request: it starts at the handshake with nothing read, called or written,
\* and reaches the read only through a handshake that succeeded; a handshake
\* that fails takes the session to its catch block, from where it ends with
\* the callback not invoked and no response written.
HandshakeBeforeRead ==
    /\ [](\A s \in Sessions :
            s.pc = "handshake" =>
                s.tls /\ s.reads = 0 /\ s.calls = 0 /\ s.writes = 0)
    /\ [][/\ \A n \in BagToSet(sess') :
                (n.tls /\ n.pc = "read" /\ Entered(n)) =>
                    \E s \in Sessions : s.pc = "handshake" /\ Steps(s, n)
          /\ \A s \in Sessions : \A n \in BagToSet(sess') :
                (s.pc = "handshake" /\ Steps(s, n)) =>
                    /\ n.pc \in {"read", "caught"}
                    /\ n.calls = 0 /\ n.writes = 0
                    /\ s.kind = "wake" => n.pc = "caught"
          /\ CaughtOnlyReturns]_vars

\* The TLS session of a wake connection, whose handshake cannot succeed, is
\* in its catch block.
HandshakeBeforeReadWitness ==
    \E s \in InCatch : s.tls /\ s.kind = "wake"

\* C18: a session whose read fails or whose callback throws writes no
\* response: the step from the read or from the callback leaves the session
\* with nothing written, and a session in its catch block ends, dropping the
\* connection, without a write.
FailedSessionWritesNothing ==
    /\ [](\A s \in Sessions :
            s.pc \in {"read", "dispatch", "caught"} => s.writes = 0)
    /\ [][/\ \A s \in Sessions : \A n \in BagToSet(sess') :
                (s.pc \in {"read", "dispatch"} /\ Steps(s, n)) =>
                    /\ n.writes = 0
                    /\ n.pc \in {"dispatch", "write", "caught"}
          /\ CaughtOnlyReturns]_vars

\* The plain session of a wake connection, which sends no request, is in its
\* catch block: its read failed.
FailedSessionWritesNothingWitness ==
    \E s \in InCatch : ~s.tls /\ s.kind = "wake" /\ s.writes = 0

\* C19: a fatal error at the startup of one listener (address that does not
\* parse, bind failure, certificate or key that cannot be read) ends the
\* accept loop of that listener alone: the caller of start() sees nothing of
\* it, and every other listener, every queued connection and every session
\* is left as it was.
StartupFailureIsLocal ==
    [][\A i \in RtIds :
          (rt[i].pc \in {"init", "ctx"} /\ rt'[i].pc = "exited") =>
              /\ rt'[i] = [rt[i] EXCEPT !.pc = "exited"]
              /\ \A j \in RtIds \ {i} :
                    rt'[j] = rt[j] /\ backlog'[j] = backlog[j]
              /\ UNCHANGED <<http_cfgs_, https_cfgs_, http_runtimes_,
                             https_runtimes_, callback_, sess, api>>]_vars

\* One listener has ended with running still set, its startup having failed,
\* while another waits in accept() and the caller of start() is idle.
StartupFailureIsLocalWitness ==
    /\ api.pc = "idle"
    /\ \E i \in RtIds : \E j \in RtIds \ {i} :
          /\ rt[i].pc = "exited" /\ rt[i].running
          /\ rt[j].pc = "accept" /\ rt[j].running

\* C20: an accept error while running is true is swallowed and the loop
\* goes back to its condition with no session spawned and the queued
\* connections untouched; an accept error while running is false ends the
\* loop.
AcceptErrorRetries ==
    [][\A i \in RtIds :
          (rt[i].pc = "accept" /\ rt'[i].pc # "accept" /\ sess' = sess) =>
              IF rt[i].running
              THEN /\ rt'[i] = [rt[i] EXCEPT !.pc = "retry"]
                   /\ backlog' = backlog
              ELSE rt'[i] = [rt[i] EXCEPT !.pc = "exited"]]_vars

\* A listener is at `continue` after an accept error, running set, with a
\* connection still queued for the next accept.
AcceptErrorRetriesWitness ==
    \E i \in RtIds :
        rt[i].pc = "retry" /\ rt[i].running /\ backlog[i] # <<>>

\* C21: stop() neither waits for sessions nor interrupts them: no step of
\* the thread calling start() or stop() changes a session, and every session
\* in flight can take its next step whatever stop() has done, so it runs on
\* to its write and its return.
StopLeavesSessions ==
    /\ [][api' # api => sess' = sess]_vars
    /\ [](\A s \in Sessions : ENABLED SessionStep(s))

\* stop() has returned and every listener thread is gone while a client's
\* session is still inside the callback.
StopLeavesSessionsWitness ==
    /\ api.pc = "stopped"
    /\ NoThreads
    /\ \E s \in Sessions :
          s.kind = "client" /\ s.pc = "dispatch" /\ s.cb # "none"

\* The sessions inside the user callback.
InCallback == {s \in Sessions : s.pc = "dispatch" /\ s.cb # "none"}

\* C22: the server does not serialize callback invocations: a session at
\* its callback can run it whatever the other sessions are doing, and a
\* listener with a queued connection can accept it and spawn its session
\* while sessions are inside the callback.
CallbacksNotSerialized ==
    /\ \A s \in Sessions : s.pc = "dispatch" => ENABLED Dispatch(s)
    /\ \A i \in RtIds :
          (rt[i].pc = "accept" /\ backlog[i] # <<>>) => ENABLED Accept(i)

\* Two sessions are inside the callback at the same time.
CallbacksNotSerializedWitness ==
    \E s \in InCallback :
        CopiesIn(s, sess) >= 2 \/ InCallback \ {s} # {}

\* The accept-loop function of thread i has been entered and has not
\* returned.
Alive(i) == rt[i].pc \notin {"none", "exited"}

\* Runtime i exists (its running flag was stored true when start() built it)
\* and stop() has not joined its thread.
Unjoined(i) == rt[i].pc # "none" /\ rt[i].joinable

OneRuntimePerEndpoint ==
    /\ Len(http_runtimes_) <= Len(http_cfgs_)
    /\ Len(https_runtimes_) <= Len(https_cfgs_)

\* C33: with keep-alive enabled a session goes ReadRequest -> Dispatch ->
\* WriteResponse; after a response is written it is back at ReadRequest
\* exactly when the keep-alive of that response is true and at Close
\* otherwise; a failed read takes it to Close; Close ends the session; and
\* every response is written before the next request is read: the requests
\* read never exceed the responses written by more than the one in progress.
KeepAliveLoop ==
    /\ [](\A s \in Sessions :
            /\ s.pc \in {"read", "close"} => s.reads = s.writes
            /\ s.pc \in {"dispatch", "write"} => s.reads = s.writes + 1
            /\ (s.pc = "read" /\ s.writes > 0) => s.keep_alive)
    /\ [][/\ \A s \in Sessions : \A n \in BagToSet(sess') :
                Steps(s, n) =>
                    /\ s.pc = "read" =>
                          \/ n = [s EXCEPT !.pc = "dispatch", !.reads = @ + 1]
                          \/ n = [s EXCEPT !.pc = "close"]
                    /\ s.pc = "dispatch" => n.pc \in {"write", "caught"}
                    /\ (s.pc = "write" /\ n.pc # "caught") =>
                          /\ n.writes = s.writes + 1
                          /\ n.pc = "read" <=> n.keep_alive
                          /\ n.pc = "close" <=> ~n.keep_alive
                    /\ s.pc = "close" => FALSE
          /\ \A s \in Sessions :
                (s.pc = "close" /\ CopiesIn(s, sess') < CopiesIn(s, sess))
                    => sess' = Gone(s)]_vars

\* A session has read a second request on its socket after it wrote the
\* first response with keep-alive.
KeepAliveLoopWitness ==
    \E s \in Sessions :
        s.pc = "dispatch" /\ s.reads = 2 /\ s.writes = 1 /\ s.keep_alive

\* C38: the wake connection of stop() never gets the callback invoked and
\* never gets a response: a session spawned for it is at its handshake, at
\* its read or in its catch block, with no request read, no callback call
\* and nothing written; a wake connection still queued on an acceptor has
\* no session at all.
WakeNeverDispatched ==
    \A s \in Sessions :
        s.kind = "wake" =>
            /\ s.pc \in {"handshake", "read", "caught"}
            /\ s.reads = 0
            /\ s.calls = 0
            /\ s.writes = 0

\* The accept loop has accepted the wake connection as a normal connection:
\* its session, which holds the user callback, is at its read.
WakeNeverDispatchedWitness ==
    \E s \in Sessions :
        s.kind = "wake" /\ s.pc = "read" /\ s.cb # "none" /\ ~s.tls

\* s is a prefix of t.
IsPrefix(s, t) == Len(s) <= Len(t) /\ SubSeq(t, 1, Len(s)) = s

\* Runtime i has just been created for an endpoint whose address parses and
\* whose port no acceptor holds and no other new thread is about to bind.
CanListen(i) ==
    /\ rt[i].pc = "init"
    /\ ParsableAddress(rt[i].address)
    /\ Holder(rt[i].port) = {}
    /\ \A j \in RtIds \ {i} : rt[j].pc = "init" => rt[j].port # rt[i].port

\* Another runtime exists for the port of runtime i.
PortShared(i) ==
    \E j \in RtIds \ {i} : rt[j].pc # "none" /\ rt[j].port = rt[i].port

\* C39: the registered endpoints survive stop(): no step removes or changes
\* a registered endpoint; a start() made after stop() has returned creates,
\* for every registered endpoint, a fresh runtime with running set whose
\* thread starts at the top of its accept-loop function; and each such
\* listener eventually listens on its address and port, unless yet another
\* start() has put a second runtime on the same port (FairSpec).
EndpointsSurviveStop ==
    /\ [][/\ IsPrefix(http_cfgs_, http_cfgs_')
          /\ IsPrefix(https_cfgs_, https_cfgs_')
          /\ (api.pc = "stopped" /\ AllRuntimes' # AllRuntimes) =>
                /\ Len(http_runtimes_') = Len(http_cfgs_)
                /\ Len(https_runtimes_') = Len(https_cfgs_)
                /\ \A k \in 1..Len(http_cfgs_) :
                      LET r == rt'[http_runtimes_'[k]]
                      IN /\ r.pc = "init" /\ r.running /\ r.joinable
                         /\ r.address = http_cfgs_[k].address
                         /\ r.port = http_cfgs_[k].port
                /\ \A k \in 1..Len(https_cfgs_) :
                      LET r == rt'[https_runtimes_'[k]]
                      IN /\ r.pc = "init" /\ r.running /\ r.joinable
                         /\ r.address = https_cfgs_[k].address
                         /\ r.port = https_cfgs_[k].port]_vars
    /\ \A i \in RtIds : CanListen(i) ~> (Listening(i) \/ PortShared(i))

\* A listener started after a stop() listens with running set: the session
\* of the wake connection of that stop() is still around, and no stop() is
\* under way.
EndpointsSurviveStopWitness ==
    /\ api.pc = "idle"
    /\ \E s \in Sessions : s.kind = "wake"
    /\ Len(AllRuntimes) = 1
    /\ \E i \in RtIds : Listening(i) /\ rt[i].running

\* C40: the callback is copied when start() runs.  A set_callback() step
\* changes no listener runtime, no queued connection and no session; a
\* runtime keeps the callback it was created with for as long as it exists;
\* a runtime created by start() holds the callback the server holds at that
\* start(); and every session holds, from its first step to its last, the
\* callback of the listener that accepted it.
CallbackCapturedAtStart ==
    [][/\ callback_' # callback_ =>
             UNCHANGED <<rt, backlog, sess, http_runtimes_, https_runtimes_>>
       /\ \A i \in RtIds :
             /\ (rt[i].pc # "none" /\ rt'[i].pc # "none") =>
                   rt'[i].cb = rt[i].cb
             /\ (rt[i].pc = "none" /\ rt'[i].pc # "none") =>
                   rt'[i].cb = callback_
       /\ BagCardinality(sess') > BagCardinality(sess) =>
             \E i \in RtIds : \E n \in BagToSet(sess') :
                /\ rt[i].pc = "accept"
                /\ n.cb = rt[i].cb
                /\ sess' = sess (+) SetToBag({n})
       /\ \A s \in Sessions : \A n \in BagToSet(sess') :
             Steps(s, n) => n.cb = s.cb]_vars

\* set_callback() was called after start(): the server holds the handler,
\* the running listener and the session it spawned for a client hold the
\* empty callback they were created with, and the session has passed its
\* dispatch without a callback call.
CallbackCapturedAtStartWitness ==
    /\ callback_ = "handler"
    /\ \E i \in RtIds : Listening(i) /\ rt[i].running /\ rt[i].cb = "none"
    /\ \E s \in Sessions :
          s.kind = "client" /\ s.cb = "none" /\ s.pc = "write" /\ s.calls = 0

\* C35: the response handed to the callback is status 200 with a Server
\* header, keep-alive disabled, no body and no Content-Length; the response
\* written is the one the callback left, with a Content-Length computed from
\* the body exactly when the body is not empty and the callback left no
\* Content-Length, and with the length header as the callback left it (set
\* or not set) in every other case.
ResponseLength ==
    /\ res.pc = "default" =>
          /\ res.fields.status = 200
          /\ res.fields.Server # ""
          /\ ~res.fields.keep_alive
          /\ res.fields.body = 0
          /\ res.fields.ContentLength = ""
    /\ res.pc = "written" =>
          IF res.left.body > 0 /\ res.left.ContentLength = ""
          THEN res.fields =
                  [res.left EXCEPT !.ContentLength = ToString(res.left.body)]
          ELSE res.fields = res.left

\* A callback left a body of two bytes with a Content-Length of "7": the
\* response is written with that header untouched.
ResponseLengthWitness ==
    /\ res.pc = "written"
    /\ res.cb # "none"
    /\ res.left.body = 2
    /\ res.left.ContentLength = "7"
    /\ res.fields.ContentLength = "7"

\* ------------------------------------------------------------ client claims

IsFinal(c) == c.done

IsNonFinal(c) == ~c.done

FinalCalls == SelectSeq(on_chunk_calls, IsFinal)

NonFinalCalls == SelectSeq(on_chunk_calls, IsNonFinal)

Payloads(cs) == Flatten([k \in 1..Len(cs) |-> cs[k].data])

\* A streaming call has returned its status to the caller.
StreamReturned ==
    call.pc = "idle" /\ call.fn \in StreamFns /\ result.kind = "status"

\* C7: a streaming call that has returned normally has invoked on_chunk with
\* done = true exactly once, whatever the framing of the response.
StreamFinalExactlyOnce == StreamReturned => Len(FinalCalls) = 1

\* C8: when a chunked stream has returned after the zero-size chunk, the
\* payloads of the done = false invocations add up, in order, to the chunks
\* the peer sent, one (empty, true) invocation follows them, and the call
\* has returned the status of the response.
ChunkedStreamDelivers ==
    (StreamReturned /\ resp.framing = "chunked" /\ parser_done) =>
        /\ Payloads(NonFinalCalls) = Flatten(resp.body)
        /\ on_chunk_calls = NonFinalCalls \o <<[data |-> <<>>, done |-> TRUE]>>
        /\ result.status = resp.status

\* A stream of as many chunks as the bound allows, one of them handed over
\* in more than one piece, has returned a status other than 200.
ChunkedStreamDeliversWitness ==
    /\ StreamReturned
    /\ resp.framing = "chunked"
    /\ parser_done
    /\ Len(resp.body) = MaxChunks
    /\ Len(NonFinalCalls) > Len(resp.body)
    /\ result.status = 404

\* C9: when Connection::stream_request has returned over a chunked response
\* the connection is closed, whatever keep-alive value the header carried.
ChunkedStreamCloses ==
    (StreamReturned /\ Persistent /\ resp.framing = "chunked") =>
        ~is_open(conn)

\* A chunked stream whose header asked for keep-alive has returned and left
\* the connection closed with the server-close reason.
ChunkedStreamClosesWitness ==
    /\ StreamReturned
    /\ Persistent
    /\ resp.framing = "chunked"
    /\ resp.keep_alive
    /\ ~is_open(conn)
    /\ conn.close_reason_ = ServerClose

\* C10: when Connection::request has returned a response, the connection is
\* open with an empty close reason if the response negotiated keep-alive and
\* closed with a non-empty reason if not; the frame of that call leaves the
\* connection as it is, and a request on an open connection is not refused.
RequestKeepAlivePolicy ==
    /\ []((call.fn = "Connection::request" /\ result.kind = "status") =>
            IF resp.keep_alive
            THEN is_open(conn) /\ conn.close_reason_ = ""
            ELSE ~is_open(conn) /\ conn.close_reason_ # "")
    /\ [][/\ call.fn = "Connection::request" => conn' = conn
          /\ (is_open(conn) /\ call'.fn = "Connection::request")
                => result'.kind \in {"status", "system_error"}]_vars

\* A request has returned a keep-alive response and the connection is open.
RequestKeepAlivePolicyWitness ==
    /\ call.fn = "Connection::request"
    /\ result.kind = "status"
    /\ resp.keep_alive
    /\ is_open(conn)

ConnectionCalls == {"Connection::request", "Connection::stream_request"}

ExchangeFailureCloses ==
    [][(Ready /\ conn.made /\ call'.fn = "Connection::request") =>
          /\ result'.kind = "system_error" =>
                /\ is_open(conn)
                /\ ~is_open(conn')
                /\ conn'.close_reason_ = result'.message
                /\ result'.message # ""
                /\ (result'.message = PeerClosed) <=>
                       (result'.code = "end_of_stream")
          /\ (/\ ~is_open(conn)
              /\ conn.close_reason_ \in
                     {ExchangeMessage(ec) : ec \in {"end_of_stream", "other"}}) =>
                /\ result'.kind = "runtime_error"
                /\ result'.message = conn.close_reason_
                /\ conn' = conn]_vars

\* A request has just been refused on a connection that an earlier request
\* closed because the exchange failed with an error other than end of stream.
ExchangeFailureClosesWitness ==
    /\ call.fn = "Connection::request"
    /\ result.kind = "runtime_error"
    /\ result.message = ExchangeMessage("other")
    /\ conn.close_reason_ = ExchangeMessage("other")
    /\ ~is_open(conn)

\* C13: in every state of a Connection reached by request, stream_request,
\* close and move operations, the close reason is non-empty exactly when the
\* connection is closed.
CloseReasonIffClosed ==
    conn.made => ((conn.close_reason_ # "") <=> ~is_open(conn))

\* C14: whenever is_open() is true, last_close_reason() is empty.
OpenHasNoReason ==
    is_open(conn) => conn.close_reason_ = ""

\* A move assignment has just given the connection the stream of an open
\* connection: it is open and holds no close reason.
OpenHasNoReasonWitness ==
    /\ call.fn = "Connection::operator="
    /\ is_open(conn)
    /\ conn.close_reason_ = ""

\* C15: close() may be called any number of times: on a connection already
\* closed, close() with no reason raises nothing and changes neither the open
\* state nor the close reason, and closing twice leaves the connection as
\* closing once does.
CloseIdempotent ==
    /\ [](conn.made => close(close(conn, ""), "") = close(conn, ""))
    /\ [][(/\ Ready
           /\ conn.made
           /\ ~is_open(conn)
           /\ call'.fn = "Connection::close"
           /\ call'.reason = "") =>
             /\ conn' = conn
             /\ result'.kind = "none"]_vars

\* close() with no reason has just returned on a connection that a response
\* without keep-alive had closed before: the reason is still that one.
CloseIdempotentWitness ==
    /\ call.fn = "Connection::close"
    /\ call.reason = ""
    /\ result.kind = "none"
    /\ ~is_open(conn)
    /\ conn.close_reason_ = ServerClose

\* C16: close(reason) records a non-empty reason in every case; with an
\* empty reason it records "Connection closed" when the connection was open
\* at the call and keeps the previous reason when it was closed already.
CloseRecordsReason ==
    [][(Ready /\ conn.made /\ call'.fn = "Connection::close") =>
          /\ ~is_open(conn')
          /\ conn'.close_reason_ =
                IF call'.reason # "" THEN call'.reason
                ELSE IF is_open(conn) THEN "Connection closed"
                ELSE conn.close_reason_]_vars

\* close("shutting down") has just recorded its reason.
CloseRecordsReasonWitness ==
    /\ call.fn = "Connection::close"
    /\ call.reason = "shutting down"
    /\ ~is_open(conn)
    /\ conn.close_reason_ = "shutting down"

\* C23: a streaming call given an empty on_chunk throws invalid_argument
\* before a connection is opened or a byte is written, and on a persistent
\* connection, open or closed, leaves the open state and the close reason as
\* they were.
EmptyCallbackRejected ==
    [][(Ready /\ call'.fn \in StreamFns /\ ~call'.given) =>
          /\ result'.kind = "invalid_argument"
          /\ call'.pc = "idle"
          /\ call'.sock = "none"
          /\ ~call'.wrote
          /\ UNCHANGED <<conn, resp, wire, on_chunk_calls>>]_vars

\* Connection::stream_request has just rejected an empty on_chunk on a
\* connection that is closed with a reason.
EmptyCallbackRejectedWitness ==
    /\ call.fn = "Connection::stream_request"
    /\ ~call.given
    /\ result.kind = "invalid_argument"
    /\ ~is_open(conn)
    /\ conn.close_reason_ # ""

\* C24: when Connection::stream_request has returned over a response that is
\* not chunked, the connection is open exactly when no read of the body met
\* end of stream and the response negotiates keep-alive; after an end of
\* stream it is closed whatever the response's keep-alive value.
FixedStreamKeepAlive ==
    (StreamReturned /\ Persistent /\ resp.framing # "chunked") =>
        /\ is_open(conn) <=> (~saw_end_of_stream /\ resp.keep_alive)
        /\ is_open(conn) => conn.close_reason_ = ""
        /\ ~is_open(conn) => conn.close_reason_ = ServerClose

\* A fixed-length stream whose header asked for keep-alive has returned after
\* an end of stream and the connection is closed.
FixedStreamKeepAliveWitness ==
    /\ StreamReturned
    /\ Persistent
    /\ resp.framing = "length"
    /\ saw_end_of_stream
    /\ resp.keep_alive
    /\ ~is_open(conn)

\* C25: in fixed-length mode an end of stream met while body bytes are
\* expected, which ends the loop with the parser not done, is not an error:
\* the step raises nothing, and the one step the call takes after its loop
\* returns the status of the response.
FixedEndOfStreamTolerated ==
    [][/\ (call.pc = "fixed" /\ call'.pc = "fixed_end" /\ ~parser_done') =>
              /\ result' = NoResult
              /\ conn' = conn
       /\ (call.pc = "fixed_end" /\ call' # call) =>
              /\ call'.pc = "idle"
              /\ result' = Returned(resp.status)
              /\ on_chunk_calls' = on_chunk_calls]_vars

\* A one-shot stream over a Content-Length response has returned the status
\* although the peer closed with body bytes outstanding.
FixedEndOfStreamToleratedWitness ==
    /\ StreamReturned
    /\ call.fn = "Client::stream_request"
    /\ resp.framing = "length"
    /\ ~parser_done
    /\ wire # <<>>
    /\ result.status = resp.status

\* C26: in chunked mode an end of stream before the zero-size chunk, which
\* ends the loop with the parser not done, is a tolerated terminator: the
\* decoder reads no more, invokes on_chunk(empty, true) exactly once, and the
\* call returns the status of the response.
ChunkedEndOfStreamTolerated ==
    /\ []((StreamReturned /\ resp.framing = "chunked" /\ ~parser_done) =>
            /\ FinalCalls = <<[data |-> <<>>, done |-> TRUE]>>
            /\ on_chunk_calls = NonFinalCalls \o FinalCalls
            /\ result = Returned(resp.status))
    /\ [][/\ (call.pc = "chunked" /\ call'.pc = "chunked_end"
                  /\ ~parser_done') =>
                /\ result' = NoResult
                /\ UNCHANGED <<conn, wire, on_chunk_calls>>
          /\ (call.pc = "chunked_end" /\ call' # call) =>
                /\ call'.pc = "idle"
                /\ wire' = wire
                /\ on_chunk_calls' = Invoke(<<>>, TRUE)
                /\ result'.kind \in {"status", "exception"}]_vars

\* A chunked stream has returned the status after the peer closed with a
\* chunk undelivered and the zero-size chunk unsent.
ChunkedEndOfStreamToleratedWitness ==
    /\ StreamReturned
    /\ resp.framing = "chunked"
    /\ ~parser_done
    /\ wire # <<>>
    /\ Len(FinalCalls) = 1
    /\ Len(NonFinalCalls) > 0

\* C27: a transport error other than the tolerated end of stream aborts the
\* stream: the call has thrown the error, on_chunk has not been invoked with
\* done = true for that stream, and a persistent connection is closed with
\* the diagnostic of the error as its non-empty close reason.
StreamErrorAborts ==
    (call.fn \in StreamFns /\ call.pc = "idle"
        /\ result.kind = "system_error") =>
            /\ FinalCalls = <<>>
            /\ result.message # ""
            /\ Persistent =>
                  /\ ~is_open(conn)
                  /\ conn.close_reason_ = result.message

\* Connection::stream_request has thrown an error other than end of stream
\* after it had delivered body bytes, and the connection is closed with the
\* stream diagnostic.
StreamErrorAbortsWitness ==
    /\ Persistent
    /\ call.pc = "idle"
    /\ result.kind = "system_error"
    /\ result.code = "other"
    /\ Len(on_chunk_calls) > 0
    /\ ~is_open(conn)
    /\ conn.close_reason_ = StreamMessage("other")

\* C28: in a streaming exchange the status code has been reported to the
\* caller, after the header was parsed, by the time on_chunk is first
\* invoked: whenever the stream has invoked on_chunk, the caller holds the
\* status.
StatusBeforeFirstChunk ==
    (call.fn \in StreamFns /\ on_chunk_calls # <<>>) => result.kind = "status"

\* A one-shot call is running or has just ended.
OneShot == call.fn \in OneShotFns

\* C29 as stated: every request a one-shot helper has written is marked
\* keep-alive disabled (Connection: close).
OneShotAlwaysMarkedClose ==
    (OneShot /\ call.wrote) => call.sent = "close"

\* C29: a one-shot helper works on a socket of its own and has closed it by
\* the time it returns or throws; no step of it reads or changes a persistent
\* connection, whatever state that connection is in; the one request it
\* writes is marked keep-alive disabled unless the caller's headers carry a
\* Connection header, which then replaces the marking.
OneShotIsolated ==
    /\ []((OneShot /\ call.pc = "idle") => call.sock = "none")
    /\ []((OneShot /\ call.wrote) =>
             call.sent = IF call.hdr = "" THEN "close" ELSE call.hdr)
    /\ [](Ready => /\ \A hdr \in CallerConnection : ENABLED Client_request(hdr)
                   /\ \A hdr \in CallerConnection :
                         ENABLED Client_stream_request(TRUE, hdr))
    /\ [][(OneShot \/ OneShot') => conn' = conn]_vars

\* A one-shot request with no Connection header of the caller has returned a
\* status beside an open persistent connection: its request was marked
\* close, its socket is gone and the persistent connection is still open.
OneShotIsolatedWitness ==
    /\ call.fn = "Client::request"
    /\ call.pc = "idle"
    /\ result.kind = "status"
    /\ call.wrote
    /\ call.hdr = ""
    /\ call.sent = "close"
    /\ call.sock = "none"
    /\ is_open(conn)

\* The calls that connect a socket before anything else: the constructor of
\* a Connection and the one-shot calls.
ConnectingFns == OneShotFns \cup {"Connection::Connection"}

\* connect has thrown: nothing accepts connections on the target port.
ConnectRefused ==
    /\ call.pc = "idle"
    /\ result = Threw("system_error", "connect")

\* C30: when nothing is listening on the target port, a one-shot request or
\* the Connection constructor fails with the transport error of connect:
\* no request byte has been written, no request marking has been sent, no
\* response has been read for a keep-alive decision, on_chunk was never
\* invoked, no socket is left, and the failed constructor leaves no
\* Connection object, open or closed.
ConnectFailureEarly ==
    ConnectRefused =>
        /\ call.fn \in ConnectingFns
        /\ result.kind = "system_error"
        /\ ~call.wrote
        /\ call.sent = ""
        /\ call.sock = "none"
        /\ resp = NoResponse
        /\ on_chunk_calls = <<>>
        /\ call.fn = "Connection::Connection" => ~conn.made /\ ~is_open(conn)

\* A one-shot request to a port where nothing listens has thrown the connect
\* error with nothing written.
ConnectFailureEarlyWitness ==
    /\ ConnectRefused
    /\ call.fn = "Client::request"
    /\ ~call.wrote
    /\ call.sent = ""
    /\ call.sock = "none"

\* C36: at every point of a stream, in both framing modes, the on_chunk
\* invocations made so far are invocations with done = false, each with a
\* non-empty payload, followed by at most one invocation with done = true,
\* which is the last one.
OnChunkShape ==
    \A k \in 1..Len(on_chunk_calls) :
        /\ ~on_chunk_calls[k].done => on_chunk_calls[k].data # <<>>
        /\ on_chunk_calls[k].done => k = Len(on_chunk_calls)

\* A fixed-length stream has returned after two invocations with
\* done = false and a last one that carried bytes with done = true.
OnChunkShapeWitness ==
    /\ StreamReturned
    /\ resp.framing = "length"
    /\ Len(on_chunk_calls) = 3
    /\ ~on_chunk_calls[1].done
    /\ ~on_chunk_calls[2].done
    /\ on_chunk_calls[3].done
    /\ on_chunk_calls[3].data # <<>>

\* C37: whenever Connection::request or Connection::stream_request has
\* exited with an exception after its request was written, an exception of
\* the caller's on_chunk in the middle of a body included, the connection is
\* closed with a non-empty close reason.
ExceptionClosesConnection ==
    (/\ call.fn \in {"Connection::request", "Connection::stream_request"}
     /\ call.pc = "idle"
     /\ call.wrote
     /\ result.kind \notin {"none", "status"}) =>
        /\ ~is_open(conn)
        /\ conn.close_reason_ # ""

\* The request built carries Host and User-Agent, and each field the client
\* sets by default holds the caller's value when the caller passed one.
DefaultsAndOverrides ==
    /\ req.fields.Host # ""
    /\ req.fields.UserAgent # ""
    /\ req.headers.Host = "" => req.fields.Host = DefaultFields(req.fn).Host
    /\ req.headers.Host # "" => req.fields.Host = req.headers.Host
    /\ req.headers.UserAgent = "" =>
          req.fields.UserAgent = DefaultFields(req.fn).UserAgent
    /\ req.headers.UserAgent # "" => req.fields.UserAgent = req.headers.UserAgent
    /\ req.headers.Connection = "" =>
          req.fields.Connection = DefaultFields(req.fn).Connection
    /\ req.headers.Connection # "" =>
          req.fields.Connection = req.headers.Connection

\* The Content-Type of a request with a body is the content_type argument,
\* application/octet-stream when there is none.
BodyContentType ==
    req.body.given =>
        req.fields.ContentType =
            IF req.content_type = "" THEN "application/octet-stream"
            ELSE req.content_type

\* C34 as stated: every request built carries Host and User-Agent, caller
\* headers replace the defaults, and a request with a body carries a
\* Content-Length equal to the body size and the Content-Type of the
\* content_type argument.
RequestCarriesLength ==
    req.pc = "built" =>
        /\ DefaultsAndOverrides
        /\ BodyContentType
        /\ req.body.given => req.fields.ContentLength = ToString(req.body.size)

\* C34: every request built carries Host and User-Agent, caller headers
\* replace the defaults, and a request with a body carries the Content-Type
\* of the content_type argument and, when the body is not empty or the verb
\* is POST, PUT or OPTIONS, a Content-Length equal to the body size; with an
\* empty body and another verb it carries no Content-Length, not even the
\* caller's; a TRACE request with a non-empty body is not built at all.
RequestFields ==
    /\ req.pc = "built" =>
          /\ DefaultsAndOverrides
          /\ BodyContentType
          /\ req.body.given =>
                req.fields.ContentLength =
                    IF req.body.size > 0 \/ req.method = "POST"
                    THEN ToString(req.body.size) ELSE ""
          /\ ~(req.body.given /\ req.method = "TRACE" /\ req.body.size > 0)
    /\ req.pc = "threw" =>
          req.body.given /\ req.method = "TRACE" /\ req.body.size > 0

\* A POST over a persistent connection with a body and no content type,
\* whose caller passed a Host, a Content-Type and a Content-Length of its
\* own: the request carries the caller's Host, the default content type and
\* the computed length.
RequestFieldsWitness ==
    /\ req.pc = "built"
    /\ req.fn = "Connection::request"
    /\ req.method = "POST"
    /\ req.body = [given |-> TRUE, size |-> 1]
    /\ req.content_type = ""
    /\ req.headers.Host = "other.example"
    /\ req.headers.ContentType = "text/html"
    /\ req.headers.ContentLength = "7"
    /\ req.fields.Host = "other.example"
    /\ req.fields.ContentType = "application/octet-stream"
    /\ req.fields.ContentLength = "1"


====
